---------------------------- MODULE Spec2Model ----------------------------
(***************************************************************************)
(* A model of the browse and download engine of the notes bot:             *)
(*   src/drive_utils.py  the Remote Tree Client (get_folder_id, list_items,*)
(*                       download_file),                                   *)
(*   src/handlers.py     file_selection_command, button_handler and        *)
(*                       reset_command,                                    *)
(*   src/bot.py          resolve_path_to_id over find_item_id_in_parent.   *)
(* The decorators busy_lock and rate_limit and the helpers                 *)
(* check_user_setup and send_wait_message are imported by handlers.py from *)
(* bot_helpers, whose code is not part of the sources at hand; they are    *)
(* modelled from the specification's sections 3, 4.4, 4.5 and 9.           *)
(*                                                                         *)
(* Every update is handled by its own asyncio task (src/main.py:166-171).  *)
(* A task runs without interruption from one await of a Telegram call to   *)
(* the next; the Drive calls are synchronous and never yield.  One action  *)
(* of the model is one such uninterrupted segment of a handler.            *)
(***************************************************************************)
EXTENDS Integers, Sequences, FiniteSets, TLC

(***************************************************************************)
(* Bounds of the model.                                                    *)
(***************************************************************************)
MaxUpdates == 3
MaxFaults == 2
MaxPathLen == 3

(* the most children of one folder: one more than a page holds *)
MaxChildren == 101

(* the messages that one setup conversation receives *)
MaxMessages == 4

Users == {"u1", "u2"}
TaskIds == {1, 2}
CallIds == {1, 2}

(***************************************************************************)
(* Program constants.                                                      *)
(***************************************************************************)
PageSize == 100
RateLimitMaxCalls == 2

None == "None"

(***************************************************************************)
(* Strings that the code converts are sequences of pieces, so that         *)
(* str.replace, str.lower, str.split and the f-strings that build          *)
(* callback_data are computed and not assumed.                             *)
(***************************************************************************)
Replace(s, old, new) == [i \in DOMAIN s |-> IF s[i] = old THEN new ELSE s[i]]

LowerPiece(p) ==
    CASE p = "CSE" -> "cse"
      [] p = "DSA" -> "dsa"
      [] p = "OS" -> "os"
      [] p = "Notes" -> "notes"
      [] p = "Assignments" -> "assignments"
      [] p = "Year" -> "year"
      [] OTHER -> p

Lower(s) == [i \in DOMAIN s |-> LowerPiece(s[i])]

(* f"subj:{id}:{command_type}" and f"dl:{id}" *)
Join(parts) ==
    [i \in 1..(2 * Len(parts) - 1) |->
        IF i % 2 = 1 THEN parts[(i + 1) \div 2] ELSE ":"]

(* str.split(":") *)
Split(data) == SelectSeq(data, LAMBDA p : p # ":")

(* query.data.startswith("stats_") *)
StartsWithStats(data) == data[1] \in {"stats_quick", "stats_export_users"}

(***************************************************************************)
(* The remote tree.  The items that may exist on the Drive, with the name, *)
(* the parent and the kind of each; a tree is the sequence of the items    *)
(* present, in the order in which the Drive API returns them.              *)
(***************************************************************************)
ROOT == "root"

(* a folder of many children: the folders d1, d2, ... and the files        *)
(* f1, f2, ... directly under the folder BIG                               *)
BulkFolders == {"d" \o ToString(i) : i \in 1..MaxChildren + 1}

BulkFiles == {"f" \o ToString(i) : i \in 1..MaxChildren + 1}

Items == {"Y2", "Y2sp", "CSE", "cse", "IT", "DSA", "OS", "NET", "DSA_N", "DSA_A",
          "OS_A", "F1", "F2", "F3", "X1", "SUB", "CSEt", "Y1", "ME"}

NodeName(id) ==
    CASE id = "Y2" -> <<"2nd", "_", "Year">>
      [] id = "Y1" -> <<"1st", "_", "Year">>
      [] id = "Y2sp" -> <<"2nd", " ", "Year">>
      [] id \in {"CSE", "CSEt"} -> <<"CSE">>
      [] id = "cse" -> <<"cse">>
      [] id = "IT" -> <<"IT">>
      [] id = "DSA" -> <<"DSA">>
      [] id = "OS" -> <<"OS">>
      [] id = "NET" -> <<"NET">>
      [] id = "DSA_N" -> <<"Notes">>
      [] id = "DSA_A" -> <<"Assignments">>
      [] id = "OS_A" -> <<"Assignments">>
      [] id = "F1" -> <<"unit1.pdf">>
      [] id = "F2" -> <<"unit2.pdf">>
      [] id = "F3" -> <<"hw1.pdf">>
      [] id = "X1" -> <<"readme.txt">>
      [] id = "SUB" -> <<"old">>
      [] OTHER -> <<id>>

NodeParent(id) ==
    CASE id \in {"Y2", "Y2sp", "Y1"} -> ROOT
      [] id = "ME" -> "Y1"
      [] id \in {"CSE", "cse", "IT", "CSEt"} -> "Y2"
      [] id \in {"DSA", "OS", "X1"} -> "CSE"
      [] id = "NET" -> "IT"
      [] id \in {"DSA_N", "DSA_A"} -> "DSA"
      [] id = "OS_A" -> "OS"
      [] id \in {"F1", "F2", "SUB"} -> "DSA_N"
      [] id = "F3" -> "DSA_A"
      [] OTHER -> "BIG"

NodeKind(id) ==
    IF id \in {"F1", "F2", "F3", "X1"} \cup BulkFiles THEN "file" ELSE "folder"

(* the items that lie in the trash *)
Trashed(id) == id = "CSEt"

Range(s) == {s[i] : i \in DOMAIN s}

(* the specification's end-to-end scenario *)
TreeOne == <<"Y2", "CSE", "DSA", "DSA_N", "F1">>
(* two subjects and two files, returned out of name order; a file beside   *)
(* the subjects and a folder beside the files; OS has no Notes folder      *)
TreeFull == <<"Y2", "CSE", "OS", "X1", "DSA", "OS_A", "DSA_N", "DSA_A",
              "F2", "SUB", "F1", "F3">>
(* a branch folder with no subject, and a second branch *)
TreeNoSubject == <<"Y2", "CSE", "IT", "NET">>
(* a subject whose Notes folder is empty *)
TreeEmptyNotes == <<"Y2", "CSE", "DSA", "DSA_N">>
(* the year folder is named with a space; the branch differs in case *)
TreeNoYear == <<"Y2sp">>
TreeNoBranch == <<"Y2", "cse", "IT">>
(* the branch folder lies in the trash *)
TreeTrashed == <<"Y2", "CSEt", "IT">>

(* two year folders, each with its own branches *)
TreeTwoYears == <<"Y1", "ME", "Y2", "CSE", "IT">>

Trees == {TreeOne, TreeFull, TreeNoSubject, TreeEmptyNotes, TreeNoYear, TreeNoBranch}


(***************************************************************************)
(* Remote Tree Client, src/drive_utils.py.  `fault` is what the Drive API  *)
(* does to the call: "ok", "http" (an HttpError, which the client catches) *)
(* or "exc" (any other exception, which the client lets through: the       *)
(* callers below handle it before they use the value).                     *)
(***************************************************************************)
DriveFaults == {"ok", "http", "exc"}

FileRef(id) == [id |-> id, name |-> NodeName(id)]

(* a lookup whose query leaves the name out *)
get_folder_id_AnyName(tr, fault, parent_id, folder_name) ==
    LET items == SelectSeq(tr, LAMBDA id :
                     /\ NodeParent(id) = parent_id
                     /\ NodeKind(id) = "folder")
    IN  IF fault = "http" THEN None
        ELSE IF items # <<>> THEN items[1] ELSE None

(* a lookup that compares the names without their case *)
get_folder_id_Folded(tr, fault, parent_id, folder_name) ==
    LET items == SelectSeq(tr, LAMBDA id :
                     /\ NodeParent(id) = parent_id
                     /\ NodeKind(id) = "folder"
                     /\ Lower(NodeName(id)) = Lower(folder_name)
                     /\ ~Trashed(id))
    IN  IF fault = "http" THEN None
        ELSE IF items # <<>> THEN items[1] ELSE None

get_folder_id(tr, fault, parent_id, folder_name) ==
    LET items == SelectSeq(tr, LAMBDA id :
                     /\ NodeParent(id) = parent_id
                     /\ NodeKind(id) = "folder"
                     /\ NodeName(id) = folder_name
                     /\ ~Trashed(id))
    IN  IF fault = "http" THEN None
        ELSE IF items # <<>> THEN items[1] ELSE None

FirstPage(s) == IF Len(s) <= PageSize THEN s ELSE SubSeq(s, 1, PageSize)

(* a listing whose query leaves the parent out *)
list_items_AnyParent(tr, fault, parent_id, item_type) ==
    LET ids == SelectSeq(tr, LAMBDA id :
                   IF item_type = "folders" THEN NodeKind(id) = "folder"
                                            ELSE NodeKind(id) # "folder")
        page == FirstPage(ids)
    IN  IF fault = "http" THEN <<>>
        ELSE [i \in DOMAIN page |-> FileRef(page[i])]

list_items(tr, fault, parent_id, item_type) ==
    LET ids == SelectSeq(tr, LAMBDA id :
                   /\ NodeParent(id) = parent_id
                   /\ ~Trashed(id)
                   /\ IF item_type = "folders" THEN NodeKind(id) = "folder"
                                               ELSE NodeKind(id) # "folder")
        page == FirstPage(ids)
    IN  IF fault = "http" THEN <<>>
        ELSE [i \in DOMAIN page |-> FileRef(page[i])]

(* get_media of an id that is no file of the Drive is an HttpError; the    *)
(* content of a file is written as the file's id                          *)
download_file(tr, fault, file_id) ==
    IF fault = "http" \/ file_id \notin Range(tr) \/ NodeKind(file_id) # "file"
    THEN None
    ELSE file_id

(***************************************************************************)
(* Path Resolver of src/bot.py: find_item_id_in_parent compares the        *)
(* lower-cased names; resolve_path_to_id walks the parts from the root.    *)
(* ResolveStep is one iteration of the loop of resolve_path_to_id, on the  *)
(* record r: current_id, the index i of the next part, the calls of        *)
(* find_item_id_in_parent made so far, the part and the path that the      *)
(* warning names, and the result: "running", an id, None, or "raised" when *)
(* an exception other than HttpError leaves the function.                  *)
(***************************************************************************)
find_item_id_in_parent(tr, fault, name, parent_id, is_folder) ==
    LET files == SelectSeq(tr, LAMBDA id :
                     /\ Lower(NodeName(id)) = Lower(name)
                     /\ NodeParent(id) = parent_id
                     /\ (NodeKind(id) = "folder") = is_folder
                     /\ ~Trashed(id))
    IN  IF fault = "http" THEN None
        ELSE IF files # <<>> THEN files[1] ELSE None

ResolveStart(root) ==
    [current_id |-> root, i |-> 1, calls |-> <<>>, warned |-> <<>>,
     result |-> "running"]

(* a walk that looks every part up under the root *)
ResolveStep_NoDescent(tr, fault, path_parts, r) ==
    IF r.i > Len(path_parts)
    THEN [r EXCEPT !.result = r.current_id]
    ELSE LET part == path_parts[r.i]
             next_id == find_item_id_in_parent(tr, fault, part, r.current_id, TRUE)
             called == Append(r.calls, <<part, r.current_id>>)
         IN  IF fault = "exc"
             THEN [r EXCEPT !.calls = called, !.result = "raised"]
             ELSE IF next_id = None
             THEN [r EXCEPT !.calls = called, !.warned = <<part, path_parts>>,
                            !.result = None]
             ELSE [r EXCEPT !.calls = called, !.i = r.i + 1]

ResolveStep(tr, fault, path_parts, r) ==
    IF r.i > Len(path_parts)
    THEN [r EXCEPT !.result = r.current_id]
    ELSE LET part == path_parts[r.i]
             next_id == find_item_id_in_parent(tr, fault, part, r.current_id, TRUE)
             called == Append(r.calls, <<part, r.current_id>>)
         IN  IF fault = "exc"
             THEN [r EXCEPT !.calls = called, !.result = "raised"]
             ELSE IF next_id = None
             THEN [r EXCEPT !.calls = called, !.warned = <<part, path_parts>>,
                            !.result = None]
             ELSE [r EXCEPT !.calls = called, !.current_id = next_id, !.i = r.i + 1]

(***************************************************************************)
(* The year-then-branch lookups of file_selection_command,                 *)
(* src/handlers.py:218-227.  faultAt is the number of the Drive call of    *)
(* the handler that `fault` strikes (0: none).  The result names the       *)
(* branch folder, or the index of the lookup that found nothing.           *)
(***************************************************************************)
(* the year used as it is written in the session *)
YearFolderName_AsWritten(year) == year

YearFolderName(year) == Replace(year, " ", "_")

FaultOf(fault, faultAt, n) == IF faultAt = n THEN fault ELSE "ok"

(* lookups that go on to the branch when the year folder is not found *)
FolderLookups_LooksOn(tr, fault, faultAt, root, year, branch_name) ==
    LET year_folder_name == YearFolderName(year)
        year_id == get_folder_id(tr, FaultOf(fault, faultAt, 1), root, year_folder_name)
        branch_id == get_folder_id(tr, FaultOf(fault, faultAt, 2), year_id, branch_name)
        call1 == <<year_folder_name, root>>
    IN  IF branch_id = None
        THEN [result |-> None, failedAt |-> IF year_id = None THEN 1 ELSE 2,
              calls |-> <<call1, <<branch_name, year_id>> >>]
        ELSE [result |-> branch_id, failedAt |-> 0,
              calls |-> <<call1, <<branch_name, year_id>> >>]

(* lookups that take the branch IT whatever the session holds *)
FolderLookups_FixedBranch(tr, fault, faultAt, root, year, branch_name) ==
    LET year_folder_name == YearFolderName(year)
        year_id == get_folder_id(tr, FaultOf(fault, faultAt, 1), root, year_folder_name)
        branch_id == get_folder_id(tr, FaultOf(fault, faultAt, 2), year_id, <<"IT">>)
        call1 == <<year_folder_name, root>>
    IN  IF year_id = None
        THEN [result |-> None, failedAt |-> 1, calls |-> <<call1>>]
        ELSE IF branch_id = None
        THEN [result |-> None, failedAt |-> 2,
              calls |-> <<call1, <<(<<"IT">>), year_id>> >>]
        ELSE [result |-> branch_id, failedAt |-> 0,
              calls |-> <<call1, <<(<<"IT">>), year_id>> >>]

FolderLookups(tr, fault, faultAt, root, year, branch_name) ==
    LET year_folder_name == YearFolderName(year)
        year_id == get_folder_id(tr, FaultOf(fault, faultAt, 1), root, year_folder_name)
        branch_id == get_folder_id(tr, FaultOf(fault, faultAt, 2), year_id, branch_name)
        call1 == <<year_folder_name, root>>
    IN  IF year_id = None
        THEN [result |-> None, failedAt |-> 1, calls |-> <<call1>>]
        ELSE IF branch_id = None
        THEN [result |-> None, failedAt |-> 2,
              calls |-> <<call1, <<branch_name, year_id>> >>]
        ELSE [result |-> branch_id, failedAt |-> 0,
              calls |-> <<call1, <<branch_name, year_id>> >>]


(***************************************************************************)
(* State.                                                                  *)
(*   tree         the Drive's content (the remote tree)                    *)
(*   service_ok   whether get_drive_service() yields a service             *)
(*   user_data    context.user_data of each user: the session              *)
(*   rl_calls     the calls of each user that rate_limit remembers         *)
(*   points       data.points of each user's document in db["user_data"]   *)
(*   access_logs  db["access_logs"]                                        *)
(*   task         the handler invocations: where each stands, what it      *)
(*                holds in its locals, and the calls it has made (log)     *)
(*   rendered     the callback_data of the buttons in each user's chat     *)
(*   menus        of each user, the buttons of the subject menu rendered   *)
(*                last (current) and of those rendered before it (replaced)*)
(*   nupd, nfault the updates received and the faults that have struck     *)
(*   rp           a run of the path resolver                               *)
(*   ls           a call of list_items                                     *)
(*   conv         the setup conversation of a user: its state, the keys    *)
(*                that it writes into context.user_data, and the handler   *)
(*                invocations that serve it                                *)
(*   bc           a run of broadcast_message_received                      *)
(***************************************************************************)
VARIABLES tree, service_ok, user_data, rl_calls, points, access_logs, task,
          rendered, menus, nupd, nfault, rp, ls, conv, bc

vars == <<tree, service_ok, user_data, rl_calls, points, access_logs, task,
          rendered, menus, nupd, nfault, rp, ls, conv, bc>>

NoName == << >>
EmptyMap == << >>

(* an empty user_data: no key is set *)
EmptyData ==
    [year |-> NoName, branch |-> NoName, name |-> NoName, is_busy |-> FALSE,
     last_subject_names |-> EmptyMap, last_file_names |-> EmptyMap]

Year2 == <<"2nd", " ", "Year">>

SetUpData == [EmptyData EXCEPT !.year = Year2, !.branch = <<"CSE">>, !.name = <<"Asha">>]

(* a session that holds the menus of an earlier browse: a subject since    *)
(* moved to another branch, and the files then listed                      *)
OldMenuData ==
    [SetUpData EXCEPT !.last_subject_names = [id \in {"NET"} |-> NodeName(id)],
                      !.last_file_names = [id \in {"F1", "F3"} |-> NodeName(id)]]

OldMenuSubjects == {Join(<<"subj", "NET", "notes">>)}

OldMenuFiles == {Join(<<"dl", "F1">>), Join(<<"dl", "F3">>)}

Commands == {<<"/notes">>, <<"/assignments">>}

ForeignData == {<<"stats_quick">>, <<"leave_feedback">>}

(* one call of the bot, as a task records it *)
Ev(k, a, n, m) == [k |-> k, a |-> a, n |-> n, m |-> m]

Button(text, callback_data) == [text |-> text, callback_data |-> callback_data]

(* an invocation of a handler: its place (pc), the update (kind, u, data),  *)
(* busy_lock's verdict, the pending exception (exc), whether an exception  *)
(* left the handler (raised), the locals subject_name, file_id, file_name, *)
(* file_content and wait_task, and the calls made (log).  For the properties it also    *)
(* notes the faults that struck it (tg_failed, drive_fault), whether the   *)
(* fetch outlasted the notifier's delay (slow), and whether the token it   *)
(* looked up was of a replaced menu and of the menu in place.              *)
IdleTask ==
    [pc |-> "idle", kind |-> "none", u |-> None, data |-> << >>, exc |-> FALSE,
     raised |-> FALSE, verdict |-> "none", subject_name |-> NoName,
     file_id |-> None, file_name |-> NoName,
     file_content |-> None, fetched |-> FALSE, slow |-> FALSE, wait |-> "none",
     tg_failed |-> FALSE, drive_fault |-> "ok", was_replaced |-> FALSE,
     in_current |-> FALSE, log |-> << >>]

(* a run of the path resolver: its inputs (root, parts), the fault and the *)
(* call it strikes, the state r of resolve_path_to_id and the result h of  *)
(* the handler's lookups                                                   *)
NoLookups == [result |-> None, failedAt |-> 0, calls |-> << >>]

NoListing == [pc |-> "off", item_type |-> "folders", fault |-> "ok", files |-> << >>]

(* no handler of the setup conversation runs in the slot *)
NoCall == [pc |-> "idle", next |-> "END", branch_names |-> << >>,
           year_folder_name |-> NoName]

(* a key of context.user_data that is not there, and one that holds v *)
Absent == << >>
Held(v) == <<v>>

(* the conversation of a user who never sent /start: no state is stored    *)
(* for the user (END), and context.user_data holds none of the keys        *)
NoConversation ==
    [state |-> "END", year |-> NoName, branch |-> NoName, name |-> NoName,
     available_branches |-> Absent, calls |-> [c \in CallIds |-> NoCall], n |-> 0]

NoBroadcast ==
    [pc |-> "off", target |-> [all |-> TRUE, year |-> NoName, branch |-> NoName],
     user_ids |-> << >>, i |-> 1, success_count |-> 0, fail_count |-> 0,
     forwarded |-> << >>]

NoResolve ==
    [pc |-> "off", root |-> ROOT, parts |-> << >>, fault |-> "ok", faultAt |-> 0,
     r |-> ResolveStart(ROOT), h |-> NoLookups]

(* a lookup that gives a key it does not hold a name all the same *)
Lookup_Default(map, key) == IF key \in DOMAIN map THEN map[key] ELSE <<"file">>

(* dict.get(key) on a dict that may be absent *)
Lookup(map, key) == IF key \in DOMAIN map THEN map[key] ELSE NoName

(* a map that gives every id the name of the first item *)
NamesMap_FirstName(items) ==
    [id \in {items[i].id : i \in DOMAIN items} |-> items[1].name]

(* {x['id']: x['name'] for x in items} *)
NamesMap(items) ==
    [id \in {items[i].id : i \in DOMAIN items} |->
        LET last == CHOOSE i \in DOMAIN items :
                        /\ items[i].id = id
                        /\ \A j \in DOMAIN items : items[j].id = id => j <= i
        IN  items[last].name]

(***************************************************************************)
(* bot_helpers, modelled from the specification.                           *)
(***************************************************************************)
(* "is setup complete": the year, the branch and the name are set *)
check_user_setup(ud) == ud.year # NoName /\ ud.branch # NoName /\ ud.name # NoName

(* rate_limit(limit_seconds, max_calls): over the limit, one notice and an *)
(* early return.  calls counts the user's earlier calls up to max_calls;   *)
(* in_window tells whether the last max_calls of them lie within           *)
(* limit_seconds of now.                                                   *)
RateLimited(calls, max_calls, in_window) == calls >= max_calls /\ in_window

(* busy_lock: the guard and the guaranteed release *)
BusyAcquire(ud) == [ud EXCEPT !.is_busy = TRUE]

(* a release that leaves the flag as it is *)
BusyRelease_Kept(ud) == ud

BusyRelease(ud) == [ud EXCEPT !.is_busy = FALSE]

(* asyncio's Task.cancel() on the notifier: a task that has finished stays *)
(* as it is                                                                *)
(* a handler that leaves the notifier running *)
CancelWait_Skipped(w) == w

CancelWait(w) == IF w \in {"pending", "sleeping"} THEN "cancelled" ELSE w


(***************************************************************************)
(* The Menu State Cache: context.user_data['last_subject_names'] =         *)
(* subject_names_map (src/handlers.py:234) and                             *)
(* context.user_data['last_file_names'] = file_names_map (line 523): the   *)
(* new map takes the place of the old one.                                 *)
(***************************************************************************)
(* a store of the subjects that drops the file names as well *)
StoreSubjectNames_ClearsFiles(ud, subject_names_map) ==
    [ud EXCEPT !.last_subject_names = subject_names_map, !.last_file_names = EmptyMap]

(* the new names added to those of the menus before *)
StoreSubjectNames_Merged(ud, subject_names_map) ==
    [ud EXCEPT !.last_subject_names =
        [id \in DOMAIN @ \cup DOMAIN subject_names_map |->
            IF id \in DOMAIN subject_names_map THEN subject_names_map[id] ELSE @[id]]]

StoreSubjectNames(ud, subject_names_map) ==
    [ud EXCEPT !.last_subject_names = subject_names_map]

(* the new file names added to those of the menus before *)
StoreFileNames_Merged(ud, file_names_map) ==
    [ud EXCEPT !.last_file_names =
        [id \in DOMAIN @ \cup DOMAIN file_names_map |->
            IF id \in DOMAIN file_names_map THEN file_names_map[id] ELSE @[id]]]

StoreFileNames(ud, file_names_map) ==
    [ud EXCEPT !.last_file_names = file_names_map]

(***************************************************************************)
(* file_selection_command, src/handlers.py:204-245, from the greeting to   *)
(* the last reply: what the segment does with the Drive and the session.   *)
(* The result holds the Drive calls made (calls), the reply that ends the  *)
(* segment (out), the session afterwards (ud) and whether an exception     *)
(* reached the handler's except clause instead (exc).                      *)
(***************************************************************************)

FolderCalls(calls) ==
    [i \in DOMAIN calls |-> Ev("get_folder_id", calls[i][2], calls[i][1], << >>)]

CommandType(text) == IF text[1] = "/notes" THEN "notes" ELSE "assignments"

SubjectKeyboard(valid_subjects, command_type) ==
    [i \in DOMAIN valid_subjects |->
        Button(valid_subjects[i].name,
               Join(<<"subj", valid_subjects[i].id, command_type>>))]

Reply(a) == Ev("reply", a, NoName, << >>)

NoEvent == Ev("none", "", NoName, << >>)

(* a body that writes the names of the subjects before it looks whether    *)
(* there are any                                                           *)
file_selection_body_StoresEmpty(tr, svc, fault, faultAt, ud, text) ==
    LET command_type == CommandType(text)
        lk == FolderLookups(tr, fault, faultAt, ROOT, ud.year, ud.branch)
        struck(n) == fault = "exc" /\ faultAt = n
        c1 == FolderCalls(SubSeq(lk.calls, 1, 1))
        c2 == FolderCalls(lk.calls)
        subjects == list_items(tr, FaultOf(fault, faultAt, 3), lk.result, "folders")
        c3 == Append(c2, Ev("list_items", lk.result, <<"folders">>, << >>))
        valid_subjects == SelectSeq(subjects, LAMBDA x : x.name # NoName)
        keep == ud
        res(calls, out, after, exc) ==
            [calls |-> calls, out |-> out, ud |-> after, exc |-> exc]
    IN  IF ~svc THEN res(<< >>, Reply("no_drive"), keep, FALSE)
        ELSE IF ud.year = NoName \/ ud.branch = NoName
        THEN res(<< >>, NoEvent, keep, TRUE)
        ELSE IF struck(1) THEN res(c1, NoEvent, keep, TRUE)
        ELSE IF lk.failedAt = 1 THEN res(c1, Reply("no_year"), keep, FALSE)
        ELSE IF struck(2) THEN res(c2, NoEvent, keep, TRUE)
        ELSE IF lk.failedAt = 2 THEN res(c2, Reply("no_branch"), keep, FALSE)
        ELSE IF struck(3) THEN res(c3, NoEvent, keep, TRUE)
        ELSE IF valid_subjects = << >>
        THEN res(c3, Reply("no_subjects"),
                 StoreSubjectNames(ud, NamesMap(valid_subjects)), FALSE)
        ELSE res(c3,
                 Ev("reply_menu", command_type, NoName,
                    SubjectKeyboard(valid_subjects, command_type)),
                 StoreSubjectNames(ud, NamesMap(valid_subjects)), FALSE)

file_selection_body(tr, svc, fault, faultAt, ud, text) ==
    LET command_type == CommandType(text)
        lk == FolderLookups(tr, fault, faultAt, ROOT, ud.year, ud.branch)
        struck(n) == fault = "exc" /\ faultAt = n
        c1 == FolderCalls(SubSeq(lk.calls, 1, 1))
        c2 == FolderCalls(lk.calls)
        subjects == list_items(tr, FaultOf(fault, faultAt, 3), lk.result, "folders")
        c3 == Append(c2, Ev("list_items", lk.result, <<"folders">>, << >>))
        valid_subjects == SelectSeq(subjects, LAMBDA x : x.name # NoName)
        keep == ud
        res(calls, out, after, exc) ==
            [calls |-> calls, out |-> out, ud |-> after, exc |-> exc]
    IN  IF ~svc THEN res(<< >>, Reply("no_drive"), keep, FALSE)
        ELSE IF ud.year = NoName \/ ud.branch = NoName
        THEN res(<< >>, NoEvent, keep, TRUE)
        ELSE IF struck(1) THEN res(c1, NoEvent, keep, TRUE)
        ELSE IF lk.failedAt = 1 THEN res(c1, Reply("no_year"), keep, FALSE)
        ELSE IF struck(2) THEN res(c2, NoEvent, keep, TRUE)
        ELSE IF lk.failedAt = 2 THEN res(c2, Reply("no_branch"), keep, FALSE)
        ELSE IF struck(3) THEN res(c3, NoEvent, keep, TRUE)
        ELSE IF valid_subjects = << >>
        THEN res(c3, Reply("no_subjects"), keep, FALSE)
        ELSE res(c3,
                 Ev("reply_menu", command_type, NoName,
                    SubjectKeyboard(valid_subjects, command_type)),
                 StoreSubjectNames(ud, NamesMap(valid_subjects)), FALSE)

(***************************************************************************)
(* button_handler, src/handlers.py:494-530: a press of a subject button.   *)
(* The result: the access-log records inserted, the Drive calls, the edit  *)
(* that ends the segment, the session afterwards, and whether an exception *)
(* left the handler.                                                       *)
(***************************************************************************)
Edit(a, n) == Ev("edit", a, n, << >>)

FileKeyboard(files) ==
    [i \in DOMAIN files |-> Button(files[i].name, Join(<<"dl", files[i].id>>))]

(* the subfolder "Notes" for every kind of browse *)
SubfolderName_AlwaysNotes(command_type) == <<"Notes">>

SubfolderName(command_type) ==
    IF command_type = "notes" THEN <<"Notes">> ELSE <<"Assignments">>

(* a press that takes the subject out of the names as it looks it up *)
subject_press_Pops(tr, svc, fault, faultAt, ud, user_id, data_parts) ==
    LET subject_id == data_parts[2]
        command_type == data_parts[3]
        subject_name == Lookup(ud.last_subject_names, subject_id)
        record == [user_id |-> user_id, subject_name |-> subject_name,
                   type |-> command_type]
        subfolder_name == SubfolderName(command_type)
        struck(n) == fault = "exc" /\ faultAt = n
        target_folder_id ==
            get_folder_id(tr, FaultOf(fault, faultAt, 1), subject_id, subfolder_name)
        c1 == <<Ev("get_folder_id", subject_id, subfolder_name, << >>)>>
        files == list_items(tr, FaultOf(fault, faultAt, 2), target_folder_id, "files")
        c2 == Append(c1, Ev("list_items", target_folder_id, <<"files">>, << >>))
        keep == [ud EXCEPT !.last_subject_names =
                    [id \in DOMAIN @ \ {subject_id} |-> @[id]]]
        res(logged, calls, out, after, exc) ==
            [logged |-> logged, calls |-> calls, out |-> out, ud |-> after,
             exc |-> exc]
    IN  IF subject_name = NoName
        THEN res(<< >>, << >>, Edit("retry_command", NoName), keep, FALSE)
        ELSE IF ~svc
        THEN res(<<record>>, << >>, Edit("no_drive", NoName), keep, FALSE)
        ELSE IF struck(1) THEN res(<<record>>, c1, NoEvent, keep, TRUE)
        ELSE IF target_folder_id = None
        THEN res(<<record>>, c1, Edit("no_subfolder", subject_name), keep, FALSE)
        ELSE IF struck(2) THEN res(<<record>>, c2, NoEvent, keep, TRUE)
        ELSE IF files = << >>
        THEN res(<<record>>, c2, Edit("no_files", subject_name), keep, FALSE)
        ELSE res(<<record>>, c2,
                 Ev("edit_menu", command_type, subject_name, FileKeyboard(files)),
                 StoreFileNames(ud, NamesMap(files)), FALSE)

(* a press that records the access only once the subfolder is found *)
subject_press_LogsLate(tr, svc, fault, faultAt, ud, user_id, data_parts) ==
    LET subject_id == data_parts[2]
        command_type == data_parts[3]
        subject_name == Lookup(ud.last_subject_names, subject_id)
        record == [user_id |-> user_id, subject_name |-> subject_name,
                   type |-> command_type]
        subfolder_name == SubfolderName(command_type)
        struck(n) == fault = "exc" /\ faultAt = n
        target_folder_id ==
            get_folder_id(tr, FaultOf(fault, faultAt, 1), subject_id, subfolder_name)
        c1 == <<Ev("get_folder_id", subject_id, subfolder_name, << >>)>>
        files == list_items(tr, FaultOf(fault, faultAt, 2), target_folder_id, "files")
        c2 == Append(c1, Ev("list_items", target_folder_id, <<"files">>, << >>))
        keep == ud
        res(logged, calls, out, after, exc) ==
            [logged |-> logged, calls |-> calls, out |-> out, ud |-> after,
             exc |-> exc]
    IN  IF subject_name = NoName
        THEN res(<< >>, << >>, Edit("retry_command", NoName), keep, FALSE)
        ELSE IF ~svc
        THEN res(<<record>>, << >>, Edit("no_drive", NoName), keep, FALSE)
        ELSE IF struck(1) THEN res(<<record>>, c1, NoEvent, keep, TRUE)
        ELSE IF target_folder_id = None
        THEN res(<< >>, c1, Edit("no_subfolder", subject_name), keep, FALSE)
        ELSE IF struck(2) THEN res(<<record>>, c2, NoEvent, keep, TRUE)
        ELSE IF files = << >>
        THEN res(<<record>>, c2, Edit("no_files", subject_name), keep, FALSE)
        ELSE res(<<record>>, c2,
                 Ev("edit_menu", command_type, subject_name, FileKeyboard(files)),
                 StoreFileNames(ud, NamesMap(files)), FALSE)

subject_press(tr, svc, fault, faultAt, ud, user_id, data_parts) ==
    LET subject_id == data_parts[2]
        command_type == data_parts[3]
        subject_name == Lookup(ud.last_subject_names, subject_id)
        record == [user_id |-> user_id, subject_name |-> subject_name,
                   type |-> command_type]
        subfolder_name == SubfolderName(command_type)
        struck(n) == fault = "exc" /\ faultAt = n
        target_folder_id ==
            get_folder_id(tr, FaultOf(fault, faultAt, 1), subject_id, subfolder_name)
        c1 == <<Ev("get_folder_id", subject_id, subfolder_name, << >>)>>
        files == list_items(tr, FaultOf(fault, faultAt, 2), target_folder_id, "files")
        c2 == Append(c1, Ev("list_items", target_folder_id, <<"files">>, << >>))
        keep == ud
        res(logged, calls, out, after, exc) ==
            [logged |-> logged, calls |-> calls, out |-> out, ud |-> after,
             exc |-> exc]
    IN  IF subject_name = NoName
        THEN res(<< >>, << >>, Edit("retry_command", NoName), keep, FALSE)
        ELSE IF ~svc
        THEN res(<<record>>, << >>, Edit("no_drive", NoName), keep, FALSE)
        ELSE IF struck(1) THEN res(<<record>>, c1, NoEvent, keep, TRUE)
        ELSE IF target_folder_id = None
        THEN res(<<record>>, c1, Edit("no_subfolder", subject_name), keep, FALSE)
        ELSE IF struck(2) THEN res(<<record>>, c2, NoEvent, keep, TRUE)
        ELSE IF files = << >>
        THEN res(<<record>>, c2, Edit("no_files", subject_name), keep, FALSE)
        ELSE res(<<record>>, c2,
                 Ev("edit_menu", command_type, subject_name, FileKeyboard(files)),
                 StoreFileNames(ud, NamesMap(files)), FALSE)

(***************************************************************************)
(* button_handler, src/handlers.py:548-549: the fetch of the download      *)
(* branch.  The result: the Drive calls, the content (None when there is   *)
(* none) and whether the fetch raised.                                     *)
(***************************************************************************)
(* a fetch that asks for the content once more when the first request     *)
(* has failed                                                              *)
fetch_Retried(tr, svc, fault, file_id) ==
    LET call == Ev("download_file", file_id, NoName, << >>)
        file_content == IF fault = "exc" THEN None ELSE download_file(tr, fault, file_id)
    IN  IF ~svc THEN [calls |-> << >>, file_content |-> None, exc |-> FALSE]
        ELSE [calls |-> IF file_content = None THEN <<call, call>> ELSE <<call>>,
              file_content |-> file_content,
              exc |-> fault = "exc"]

fetch(tr, svc, fault, file_id) ==
    IF ~svc THEN [calls |-> << >>, file_content |-> None, exc |-> FALSE]
    ELSE [calls |-> <<Ev("download_file", file_id, NoName, << >>)>>,
          file_content |-> IF fault = "exc" THEN None ELSE download_file(tr, fault, file_id),
          exc |-> fault = "exc"]


(***************************************************************************)
(* Steps of the model.                                                     *)
(***************************************************************************)
Free(t) == task[t].pc \in {"idle", "done"} /\ task[t].wait \in {"none", "ended", "sent"}

(* the slot of a new invocation: the lowest free one *)
FreeSlot(t) == Free(t) /\ \A s \in TaskIds : Free(s) => t <= s

(* the invocations that have not returned: one that has returned is seen  *)
(* in the state that its last step leaves, and is gone with the next step  *)
Unfinished == [s \in TaskIds |-> IF Free(s) THEN IdleTask ELSE task[s]]

(* the tasks once invocation t has begun as tk *)
Started(t, tk) == [Unfinished EXCEPT ![t] = tk]

(* the tasks when invocation t takes a step *)
Stepping(t) == [Unfinished EXCEPT ![t] = task[t]]

(* a Telegram call that fails and a Drive call that faults are faults *)
Cost(tgok, fault) == (IF tgok THEN 0 ELSE 1) + (IF fault = "ok" THEN 0 ELSE 1)

Callbacks(keyboard) == {keyboard[i].callback_data : i \in DOMAIN keyboard}

(* the log after a Telegram call: a call that raises shows nothing *)
Sent(log, tgok, ev) == IF tgok THEN Append(log, ev) ELSE log

(* the task with the faults of a segment noted *)
Struck(tk, tgok, fault) ==
    [tk EXCEPT !.tg_failed = @ \/ ~tgok,
               !.drive_fault = IF fault = "ok" THEN @ ELSE fault]

InFlight(t) == task[t].verdict = "admitted" /\ task[t].pc \notin {"idle", "done"}

(***************************************************************************)
(* /notes and /assignments: rate_limit, busy_lock and the handler up to    *)
(* its first await, src/handlers.py:204-212.                               *)
(***************************************************************************)
file_selection_command(u, text) ==
    /\ nupd < MaxUpdates
    /\ \E t \in TaskIds, tgok \in BOOLEAN, in_window \in BOOLEAN :
        LET ud == user_data[u]
            limited == RateLimited(rl_calls[u], RateLimitMaxCalls, in_window)
            busy == ud.is_busy
            verdict == IF limited THEN "limited" ELSE IF busy THEN "busy" ELSE "admitted"
            first == IF limited THEN Reply("rate_limited")
                     ELSE IF busy THEN Reply("please_wait")
                     ELSE IF ~check_user_setup(ud) THEN Reply("run_start")
                     ELSE Reply("greeting")
            pc == IF verdict # "admitted" THEN "done"
                  ELSE IF ~check_user_setup(ud) THEN "fsc_return" ELSE "fsc_greeted"
        IN  /\ FreeSlot(t)
            /\ in_window => limited
            /\ nfault + Cost(tgok, "ok") <= MaxFaults
            /\ nfault' = nfault + Cost(tgok, "ok")
            /\ task' = Started(t,
                   [IdleTask EXCEPT !.pc = pc, !.kind = "command", !.u = u,
                                    !.data = text, !.verdict = verdict,
                                    !.exc = (pc # "done" /\ ~tgok),
                                    !.raised = (pc = "done" /\ ~tgok),
                                    !.tg_failed = ~tgok,
                                    !.log = Sent(<< >>, tgok, first)])
            /\ user_data' = [user_data EXCEPT ![u] =
                   IF verdict = "admitted" THEN BusyAcquire(ud) ELSE ud]
            /\ rl_calls' = [rl_calls EXCEPT ![u] =
                   IF limited \/ @ = RateLimitMaxCalls THEN @ ELSE @ + 1]
    /\ nupd' = nupd + 1
    /\ UNCHANGED <<tree, service_ok, points, access_logs, rendered, menus, rp, ls, conv, bc>>

(* src/handlers.py:213-242, or the except clause when the greeting raised *)
fsc_greeted(t) ==
    /\ task[t].pc = "fsc_greeted"
    /\ \E tgok \in BOOLEAN, fault \in DriveFaults, faultAt \in 0..3 :
        LET tk == task[t]
            ud == user_data[tk.u]
            b == IF tk.exc
                 THEN [calls |-> << >>, out |-> NoEvent, ud |-> ud, exc |-> TRUE]
                 ELSE file_selection_body(tree, service_ok, fault, faultAt, ud, tk.data)
            out == IF b.exc THEN Reply("error") ELSE b.out
            menu == out.k = "reply_menu"
        IN  /\ (fault = "ok") = (faultAt = 0)
            /\ faultAt <= Len(b.calls)
            /\ nfault + Cost(tgok, fault) <= MaxFaults
            /\ nfault' = nfault + Cost(tgok, fault)
            /\ task' = [Stepping(t) EXCEPT ![t] =
                   [Struck(tk, tgok, fault) EXCEPT
                       !.pc = IF b.exc THEN "release" ELSE "fsc_return",
                       !.exc = ~tgok,
                       !.log = Sent(tk.log \o b.calls, tgok, out)]]
            /\ user_data' = [user_data EXCEPT ![tk.u] = b.ud]
            /\ menus' = [menus EXCEPT ![tk.u] =
                   IF menu THEN [current |-> Callbacks(out.m),
                                 replaced |-> @.replaced \cup @.current]
                   ELSE @]
            /\ rendered' = [rendered EXCEPT ![tk.u] =
                   IF tgok /\ menu THEN @ \cup Callbacks(out.m) ELSE @]
    /\ UNCHANGED <<tree, service_ok, rl_calls, points, access_logs, nupd, rp, ls, conv, bc>>

(* after the last reply of the try block: the except clause when the reply *)
(* raised (src/handlers.py:243-245), else the return through busy_lock     *)
fsc_return(t) ==
    /\ task[t].pc = "fsc_return"
    /\ \E tgok \in BOOLEAN :
        LET tk == task[t]
        IN  /\ tk.exc \/ tgok
            /\ nfault + Cost(tgok, "ok") <= MaxFaults
            /\ nfault' = nfault + Cost(tgok, "ok")
            /\ task' = [Stepping(t) EXCEPT ![t] =
                   IF tk.exc
                   THEN [Struck(tk, tgok, "ok") EXCEPT
                            !.pc = "release", !.exc = ~tgok,
                            !.log = Sent(tk.log, tgok, Reply("error"))]
                   ELSE [tk EXCEPT !.pc = "done"]]
            /\ user_data' = [user_data EXCEPT ![tk.u] =
                   IF tk.exc THEN @ ELSE BusyRelease(@)]
    /\ UNCHANGED <<tree, service_ok, rl_calls, points, access_logs, rendered, menus,
                   nupd, rp, ls, conv, bc>>

(* busy_lock's release when the handler's last await has returned or raised *)
busy_lock_release(t) ==
    /\ task[t].pc = "release"
    /\ task[t].wait # "cancelled"
    /\ task' = [Stepping(t) EXCEPT ![t].pc = "done", ![t].exc = FALSE,
                            ![t].raised = task[t].exc]
    /\ user_data' = [user_data EXCEPT ![task[t].u] = BusyRelease(@)]
    /\ UNCHANGED <<tree, service_ok, rl_calls, points, access_logs, rendered,
                   menus, nupd, nfault, rp, ls, conv, bc>>

(***************************************************************************)
(* A button press: busy_lock and button_handler up to the await of         *)
(* query.answer(), src/handlers.py:484-487.  The user presses a button of  *)
(* a message of the chat, or a button of another feature.                  *)
(***************************************************************************)
(* a guard that looks at the busy flags of all users *)
button_handler_AnyBusy(u, data) ==
    /\ nupd < MaxUpdates
    /\ \E t \in TaskIds, tgok \in BOOLEAN :
        LET ud == user_data[u]
            busy == \E v \in Users : user_data[v].is_busy
        IN  /\ FreeSlot(t)
            /\ nfault + Cost(tgok, "ok") <= MaxFaults
            /\ nfault' = nfault + Cost(tgok, "ok")
            /\ task' = Started(t,
                   [IdleTask EXCEPT !.pc = IF busy THEN "done" ELSE "btn_answered",
                                    !.kind = "button", !.u = u, !.data = data,
                                    !.verdict = IF busy THEN "busy" ELSE "admitted",
                                    !.exc = (~busy /\ ~tgok),
                                    !.raised = (busy /\ ~tgok),
                                    !.tg_failed = ~tgok,
                                    !.log = Sent(<< >>, tgok,
                                                 IF busy THEN Reply("please_wait")
                                                 ELSE Ev("answer", "", NoName, << >>))])
            /\ user_data' = [user_data EXCEPT ![u] =
                   IF busy THEN ud ELSE BusyAcquire(ud)]
    /\ nupd' = nupd + 1
    /\ UNCHANGED <<tree, service_ok, rl_calls, points, access_logs, rendered, menus, rp, ls, conv, bc>>

button_handler(u, data) ==
    /\ nupd < MaxUpdates
    /\ \E t \in TaskIds, tgok \in BOOLEAN :
        LET ud == user_data[u]
            busy == ud.is_busy
        IN  /\ FreeSlot(t)
            /\ nfault + Cost(tgok, "ok") <= MaxFaults
            /\ nfault' = nfault + Cost(tgok, "ok")
            /\ task' = Started(t,
                   [IdleTask EXCEPT !.pc = IF busy THEN "done" ELSE "btn_answered",
                                    !.kind = "button", !.u = u, !.data = data,
                                    !.verdict = IF busy THEN "busy" ELSE "admitted",
                                    !.exc = (~busy /\ ~tgok),
                                    !.raised = (busy /\ ~tgok),
                                    !.tg_failed = ~tgok,
                                    !.log = Sent(<< >>, tgok,
                                                 IF busy THEN Reply("please_wait")
                                                 ELSE Ev("answer", "", NoName, << >>))])
            /\ user_data' = [user_data EXCEPT ![u] =
                   IF busy THEN ud ELSE BusyAcquire(ud)]
    /\ nupd' = nupd + 1
    /\ UNCHANGED <<tree, service_ok, rl_calls, points, access_logs, rendered, menus, rp, ls, conv, bc>>

(* points awarded for every press *)
AwardPoints_Always(action, pts) == pts + 1

(* src/handlers.py:531-537: the $inc of data.points, at the head of the    *)
(* branch of 'dl'                                                          *)
AwardPoints(action, pts) == IF action = "dl" THEN pts + 1 ELSE pts

(* src/handlers.py:488-545: the dispatch on the callback data *)
btn_answered(t) ==
    /\ task[t].pc = "btn_answered"
    /\ \E tgok \in BOOLEAN, fault \in DriveFaults, faultAt \in 0..2 :
        LET tk == task[t]
            ud == user_data[tk.u]
            data_parts == Split(tk.data)
            action == IF tk.exc THEN "raise"
                      ELSE IF StartsWithStats(tk.data) THEN "return"
                      ELSE IF data_parts[1] \in {"subj", "dl"} THEN data_parts[1]
                      ELSE "return"
            sp == subject_press(tree, service_ok, fault, faultAt, ud, tk.u, data_parts)
            file_id == data_parts[2]
            file_name == Lookup(ud.last_file_names, file_id)
            (* calls: the Drive calls; out: the edit; leaves: no await follows *)
            calls == IF action = "subj" THEN sp.calls ELSE << >>
            leaves == \/ action \in {"raise", "return"}
                      \/ action = "subj" /\ sp.exc
            out == IF action = "subj" THEN sp.out
                   ELSE IF file_name = NoName THEN Edit("retry", NoName)
                   ELSE Edit("preparing", file_name)
            starts == action = "dl" /\ file_name # NoName
            noted == [Struck(tk, tgok, fault) EXCEPT
                         !.subject_name =
                             IF action = "subj"
                             THEN Lookup(ud.last_subject_names, data_parts[2])
                             ELSE NoName,
                         !.was_replaced = (action = "subj" /\ tk.data \in menus[tk.u].replaced),
                         !.in_current = (action = "subj" /\
                             data_parts[2] \in {Split(d)[2] : d \in menus[tk.u].current})]
        IN  /\ (fault = "ok") = (faultAt = 0)
            /\ faultAt <= Len(calls)
            /\ leaves => tgok
            /\ nfault + Cost(tgok, fault) <= MaxFaults
            /\ nfault' = nfault + Cost(tgok, fault)
            /\ task' = [Stepping(t) EXCEPT ![t] =
                   IF leaves
                   THEN [noted EXCEPT !.pc = "done", !.exc = FALSE,
                                      !.raised = (action # "return"),
                                      !.log = tk.log \o calls]
                   ELSE [noted EXCEPT !.pc = IF starts THEN "btn_preparing" ELSE "release",
                                      !.exc = ~tgok,
                                      !.file_id = IF starts THEN file_id ELSE None,
                                      !.file_name = IF starts THEN file_name ELSE NoName,
                                      !.log = Sent(tk.log \o calls, tgok, out)]]
            /\ user_data' = [user_data EXCEPT ![tk.u] =
                   LET d == IF action = "subj" THEN sp.ud ELSE ud
                   IN  IF leaves THEN BusyRelease(d) ELSE d]
            /\ access_logs' = IF action = "subj" THEN access_logs \o sp.logged
                              ELSE access_logs
            /\ points' = [points EXCEPT ![tk.u] = AwardPoints(action, @)]
            /\ rendered' = [rendered EXCEPT ![tk.u] =
                   IF ~leaves /\ tgok /\ out.k = "edit_menu"
                   THEN @ \cup Callbacks(out.m) ELSE @]
    /\ UNCHANGED <<tree, service_ok, rl_calls, menus, nupd, rp, ls, conv, bc>>

(* the calls of src/handlers.py:547-557 in their order: the fetch, then    *)
(* the document or the failure notice                                      *)
FetchThenTell_Early(log, calls, tgok, out) == Sent(log, tgok, out) \o calls

FetchThenTell(log, calls, tgok, out) == Sent(log \o calls, tgok, out)

(* src/handlers.py:546-557: the notifier, the fetch and the outcome.  The  *)
(* fetch is a synchronous call: from create_task to wait_task.cancel() the *)
(* handler does not yield to the event loop.                               *)
btn_preparing(t) ==
    /\ task[t].pc = "btn_preparing"
    /\ \E tgok \in BOOLEAN, fault \in DriveFaults, slow \in BOOLEAN :
        LET tk == task[t]
            f == fetch(tree, service_ok, fault, tk.file_id)
            leaves == tk.exc \/ f.exc
            wait_task == CancelWait("pending")
            out == IF f.file_content # None
                   THEN Ev("send_document", f.file_content, tk.file_name, << >>)
                   ELSE Edit("failed", tk.file_name)
            noted == [Struck(tk, tgok, fault) EXCEPT
                         !.fetched = TRUE, !.file_content = f.file_content,
                         !.slow = slow, !.wait = wait_task]
        IN  /\ tk.exc => (fault = "ok" /\ ~slow)
            /\ (fault # "ok") => Len(f.calls) > 0
            /\ leaves => tgok
            /\ nfault + Cost(tgok, fault) <= MaxFaults
            /\ nfault' = nfault + Cost(tgok, fault)
            /\ task' = [Stepping(t) EXCEPT ![t] =
                   IF tk.exc
                   THEN [tk EXCEPT !.pc = "done", !.exc = FALSE, !.raised = TRUE]
                   ELSE IF f.exc
                   THEN [noted EXCEPT !.pc = "done", !.exc = FALSE, !.raised = TRUE,
                                      !.log = tk.log \o f.calls]
                   ELSE [noted EXCEPT !.pc = IF f.file_content # None THEN "btn_sent"
                                             ELSE "release",
                                      !.exc = ~tgok,
                                      !.log = FetchThenTell(tk.log, f.calls, tgok, out)]]
            /\ user_data' = [user_data EXCEPT ![tk.u] =
                   IF leaves THEN BusyRelease(@) ELSE @]
    /\ UNCHANGED <<tree, service_ok, rl_calls, points, access_logs, rendered, menus,
                   nupd, rp, ls, conv, bc>>

(* a handler that ends after the document without passing busy_lock's     *)
(* release                                                                 *)
btn_sent_NoRelease(t) ==
    /\ task[t].pc = "btn_sent"
    /\ task[t].wait # "cancelled"
    /\ \E tgok \in BOOLEAN :
        LET tk == task[t]
        IN  /\ tk.exc => tgok
            /\ nfault + Cost(tgok, "ok") <= MaxFaults
            /\ nfault' = nfault + Cost(tgok, "ok")
            /\ task' = [Stepping(t) EXCEPT ![t] =
                   IF tk.exc
                   THEN [tk EXCEPT !.pc = "done", !.exc = FALSE, !.raised = TRUE]
                   ELSE [Struck(tk, tgok, "ok") EXCEPT
                            !.pc = "done", !.exc = FALSE,
                            !.log = Sent(tk.log, tgok, Ev("delete", "", NoName, << >>))]]
            /\ user_data' = user_data
    /\ UNCHANGED <<tree, service_ok, rl_calls, points, access_logs, rendered, menus,
                   nupd, rp, ls, conv, bc>>

(* src/handlers.py:554-555: the removal of the "preparing" message, whose  *)
(* failure the handler swallows                                            *)
btn_sent(t) ==
    /\ task[t].pc = "btn_sent"
    /\ task[t].wait # "cancelled"
    /\ \E tgok \in BOOLEAN :
        LET tk == task[t]
        IN  /\ tk.exc => tgok
            /\ nfault + Cost(tgok, "ok") <= MaxFaults
            /\ nfault' = nfault + Cost(tgok, "ok")
            /\ task' = [Stepping(t) EXCEPT ![t] =
                   IF tk.exc
                   THEN [tk EXCEPT !.pc = "done", !.exc = FALSE, !.raised = TRUE]
                   ELSE [Struck(tk, tgok, "ok") EXCEPT
                            !.pc = "release", !.exc = FALSE,
                            !.log = Sent(tk.log, tgok, Ev("delete", "", NoName, << >>))]]
            /\ user_data' = [user_data EXCEPT ![tk.u] =
                   IF tk.exc THEN BusyRelease(@) ELSE @]
    /\ UNCHANGED <<tree, service_ok, rl_calls, points, access_logs, rendered, menus,
                   nupd, rp, ls, conv, bc>>

(***************************************************************************)
(* send_wait_message, run by the event loop as the task wait_task: a task  *)
(* not cancelled starts its sleep, a sleeping one sends the message when   *)
(* the delay is over, a cancelled one ends without a message.  The loop    *)
(* runs the tasks that are ready in the order in which they were made      *)
(* ready: wait_task, made ready by create_task, runs before the handler,   *)
(* which waits for its next Telegram call to return, goes on.              *)
(***************************************************************************)
send_wait_message(t) ==
    /\ task[t].wait \in {"pending", "sleeping", "cancelled"}
    /\ task' = [Stepping(t) EXCEPT ![t] =
           CASE @.wait = "pending" -> [@ EXCEPT !.wait = "sleeping"]
             [] @.wait = "sleeping" ->
                    [@ EXCEPT !.wait = "sent",
                              !.log = Append(@.log, Ev("wait_message", @.u, NoName, << >>))]
             [] @.wait = "cancelled" -> [@ EXCEPT !.wait = "ended"]]
    /\ UNCHANGED <<tree, service_ok, user_data, rl_calls, points, access_logs,
                   rendered, menus, nupd, nfault, rp, ls, conv, bc>>

(* a reset that clears the profile and keeps the menus *)
reset_command_KeepsMenus(u) ==
    /\ nupd < MaxUpdates
    /\ nupd' = nupd + 1
    /\ user_data' = [user_data EXCEPT ![u] =
           [@ EXCEPT !.year = NoName, !.branch = NoName, !.name = NoName,
                     !.is_busy = FALSE]]
    /\ points' = [points EXCEPT ![u] = 0]
    /\ task' = Unfinished
    /\ UNCHANGED <<tree, service_ok, rl_calls, access_logs, rendered, menus,
                   nfault, rp, ls, conv, bc>>

(* /reset, src/handlers.py:140-149 *)
reset_command(u) ==
    /\ nupd < MaxUpdates
    /\ nupd' = nupd + 1
    /\ user_data' = [user_data EXCEPT ![u] = EmptyData]
    /\ points' = [points EXCEPT ![u] = 0]
    /\ task' = Unfinished
    /\ UNCHANGED <<tree, service_ok, rl_calls, access_logs, rendered, menus,
                   nfault, rp, ls, conv, bc>>

(***************************************************************************)
(* The bot: the sessions are those the persistence has restored            *)
(* (src/main.py:44-46), the chat of a user who holds earlier menus shows   *)
(* their buttons.                                                          *)
(***************************************************************************)
InitFor(U) ==
    /\ tree \in Trees
    /\ service_ok \in BOOLEAN
    /\ user_data \in [Users -> {EmptyData, SetUpData, OldMenuData}]
    /\ \A u \in Users \ U : user_data[u] = EmptyData
    /\ rl_calls = [u \in Users |-> 0]
    /\ points = [u \in Users |-> 0]
    /\ access_logs = << >>
    /\ task = [t \in TaskIds |-> IdleTask]
    /\ rendered = [u \in Users |->
           IF user_data[u] = OldMenuData THEN OldMenuSubjects \cup OldMenuFiles ELSE {}]
    /\ menus = [u \in Users |->
           [current |-> IF user_data[u] = OldMenuData THEN OldMenuSubjects ELSE {},
            replaced |-> {}]]
    /\ nupd = 0
    /\ nfault = 0
    /\ rp = NoResolve
    /\ ls = NoListing
    /\ conv = NoConversation
    /\ bc = NoBroadcast

(* the steps of the bot when the users of U write to it *)
Step(U) ==
    \/ \E u \in U, text \in Commands : file_selection_command(u, text)
    \/ \E t \in TaskIds : fsc_greeted(t)
    \/ \E t \in TaskIds : fsc_return(t)
    \/ \E t \in TaskIds : busy_lock_release(t)
    \/ \E u \in U : \E data \in rendered[u] \cup ForeignData : button_handler(u, data)
    \/ \E t \in TaskIds : btn_answered(t)
    \/ \E t \in TaskIds : btn_preparing(t)
    \/ \E t \in TaskIds : btn_sent(t)
    \/ \E t \in TaskIds : send_wait_message(t)
    \/ \E u \in U : reset_command(u)

(***************************************************************************)
(* The path resolver on its own: a root, a path and a tree, walked by      *)
(* resolve_path_to_id one part at a time, or looked up by the year and     *)
(* branch lookups of file_selection_command.                               *)
(***************************************************************************)
(* a year folder that holds the same branch name in both cases *)
TreeBothCases == <<"Y2", "cse", "CSE", "DSA", "DSA_N">>

ResolveTrees == {TreeFull, TreeNoYear, TreeNoBranch, TreeBothCases}

Roots == {ROOT, "Y2"}

SegmentNames == {Year2, <<"2nd", "_", "Year">>, <<"CSE">>, <<"cse">>, <<"DSA">>,
                 <<"Notes">>}

RECURSIVE Paths(_)
Paths(n) ==
    IF n = 0 THEN {<< >>}
    ELSE LET shorter == Paths(n - 1)
         IN  shorter \cup {Append(p, x) : p \in {q \in shorter : Len(q) = n - 1},
                                           x \in SegmentNames}

(* one iteration of the loop of resolve_path_to_id, or its return *)
resolve_path_to_id ==
    /\ rp.pc \in {"start", "walk"}
    /\ LET r == ResolveStep(tree, FaultOf(rp.fault, rp.faultAt, rp.r.i), rp.parts, rp.r)
       IN  rp' = [rp EXCEPT !.r = r,
                            !.pc = IF r.result = "running" THEN "walk" ELSE "done"]
    /\ UNCHANGED <<tree, service_ok, user_data, rl_calls, points, access_logs, task,
                   rendered, menus, nupd, nfault, ls, conv, bc>>

(* the lookups of file_selection_command on a year and a branch *)
year_branch_lookups ==
    /\ rp.pc = "start"
    /\ Len(rp.parts) = 2
    /\ rp.fault # "exc"
    /\ rp' = [rp EXCEPT !.pc = "looked",
                        !.h = FolderLookups(tree, rp.fault, rp.faultAt, rp.root,
                                            rp.parts[1], rp.parts[2])]
    /\ UNCHANGED <<tree, service_ok, user_data, rl_calls, points, access_logs, task,
                   rendered, menus, nupd, nfault, ls, conv, bc>>

InitResolve ==
    /\ tree \in ResolveTrees
    /\ service_ok = TRUE
    /\ user_data = [u \in Users |-> EmptyData]
    /\ rl_calls = [u \in Users |-> 0]
    /\ points = [u \in Users |-> 0]
    /\ access_logs = << >>
    /\ task = [t \in TaskIds |-> IdleTask]
    /\ rendered = [u \in Users |-> {}]
    /\ menus = [u \in Users |-> [current |-> {}, replaced |-> {}]]
    /\ nupd = 0
    /\ nfault = 0
    /\ ls = NoListing
    /\ conv = NoConversation
    /\ bc = NoBroadcast
    /\ \E root \in Roots, parts \in Paths(MaxPathLen), fault \in DriveFaults,
          faultAt \in 0..MaxPathLen :
        /\ (fault = "ok") = (faultAt = 0)
        /\ faultAt <= Len(parts)
        /\ rp = [NoResolve EXCEPT !.pc = "start", !.root = root, !.parts = parts,
                                  !.fault = fault, !.faultAt = faultAt,
                                  !.r = ResolveStart(root)]

NextResolve == resolve_path_to_id \/ year_branch_lookups

SpecResolve == InitResolve /\ [][NextResolve]_vars

(***************************************************************************)
(* One call of get_folder_id: a parent, a name, and what the Drive API     *)
(* does to the request.                                                    *)
(***************************************************************************)
FindTrees == {TreeFull, TreeNoYear, TreeNoBranch, TreeBothCases, TreeTrashed}

FindParents == {ROOT, "Y2", "CSE", "DSA"}

FindNames ==
    {<<"2nd", "_", "Year">>, <<"2nd", " ", "Year">>, <<"CSE">>, <<"cse">>, <<"IT">>,
     <<"DSA">>, <<"Notes">>, <<"readme.txt">>}

get_folder_id_call ==
    /\ rp.pc = "start"
    /\ rp' = [rp EXCEPT !.pc = "found",
                        !.h = [NoLookups EXCEPT
                                  !.result = get_folder_id(tree, rp.fault, rp.root,
                                                           rp.parts[1]),
                                  !.calls = << <<rp.parts[1], rp.root>> >>]]
    /\ UNCHANGED <<tree, service_ok, user_data, rl_calls, points, access_logs, task,
                   rendered, menus, nupd, nfault, ls, conv, bc>>

InitFind ==
    /\ tree \in FindTrees
    /\ service_ok = TRUE
    /\ user_data = [u \in Users |-> EmptyData]
    /\ rl_calls = [u \in Users |-> 0]
    /\ points = [u \in Users |-> 0]
    /\ access_logs = << >>
    /\ task = [t \in TaskIds |-> IdleTask]
    /\ rendered = [u \in Users |-> {}]
    /\ menus = [u \in Users |-> [current |-> {}, replaced |-> {}]]
    /\ nupd = 0
    /\ nfault = 0
    /\ ls = NoListing
    /\ conv = NoConversation
    /\ bc = NoBroadcast
    /\ \E parent_id \in FindParents, folder_name \in FindNames, fault \in {"ok", "http"} :
        rp = [NoResolve EXCEPT !.pc = "start", !.root = parent_id,
                               !.parts = <<folder_name>>, !.fault = fault,
                               !.faultAt = IF fault = "ok" THEN 0 ELSE 1]

NextFind == get_folder_id_call

SpecFind == InitFind /\ [][NextFind]_vars

(***************************************************************************)
(* The Drive client on a folder of up to MaxChildren children: n children  *)
(* of the kind asked for, in the order d1, d2, ... (or f1, f2, ...), and   *)
(* one child of the other kind after them.                                 *)
(***************************************************************************)
BulkTree(n, item_type) ==
    [i \in 1..n + 1 |->
        IF (item_type = "folders") = (i <= n) THEN "d" \o ToString(i)
                                             ELSE "f" \o ToString(i)]

(* one call of list_items on the folder BIG *)
list_items_call ==
    /\ ls.pc = "start"
    /\ ls' = [ls EXCEPT !.pc = "listed",
                        !.files = list_items(tree, ls.fault, "BIG", ls.item_type)]
    /\ UNCHANGED <<tree, service_ok, user_data, rl_calls, points, access_logs, task,
                   rendered, menus, nupd, nfault, rp, conv, bc>>

InitList ==
    /\ service_ok = TRUE
    /\ user_data = [u \in Users |-> EmptyData]
    /\ rl_calls = [u \in Users |-> 0]
    /\ points = [u \in Users |-> 0]
    /\ access_logs = << >>
    /\ task = [t \in TaskIds |-> IdleTask]
    /\ rendered = [u \in Users |-> {}]
    /\ menus = [u \in Users |-> [current |-> {}, replaced |-> {}]]
    /\ nupd = 0
    /\ nfault = 0
    /\ rp = NoResolve
    /\ conv = NoConversation
    /\ bc = NoBroadcast
    /\ \E n \in 0..MaxChildren, item_type \in {"folders", "files"},
          fault \in {"ok", "http"} :
        /\ tree = BulkTree(n, item_type)
        /\ ls = [NoListing EXCEPT !.pc = "start", !.item_type = item_type,
                                  !.fault = fault]

NextList == list_items_call

SpecList == InitList /\ [][NextList]_vars

(***************************************************************************)
(* Two users at once, on a Drive that holds subjects and files: one whose  *)
(* profile is set up, one who holds the menus of an earlier browse.  A     *)
(* user may also press a button that was rendered for the other user       *)
(* (callback data is sent by the client, and a message can be passed on).  *)
(***************************************************************************)
InitShared ==
    /\ InitFor(Users)
    /\ tree = TreeFull
    /\ service_ok
    /\ user_data = [u \in Users |-> IF u = "u1" THEN SetUpData ELSE OldMenuData]

PressOfOthersButton ==
    \E u \in Users : \E v \in Users \ {u} : \E data \in rendered[v] :
        button_handler(u, data)

NextShared == Step(Users) \/ PressOfOthersButton

SpecShared == InitShared /\ [][NextShared]_vars

(***************************************************************************)
(* The persistence of src/main.py.  The document of a user in              *)
(* db["user_data"] is {_id, data}; update_user_data sets data to the       *)
(* session that the application holds in memory.  That session is the      *)
(* data loaded at the start (get_user_data) as the handlers have changed   *)
(* it since; no handler writes points into it, the download branch         *)
(* increments data.points in the store only.                               *)
(***************************************************************************)
(* data.points as the session in memory holds it: the points loaded at the *)
(* start, which are those of Init                                          *)
SessionPoints(ud) == 0

(* MongoPersistence.update_user_data(user_id, data): {"$set": {"data": data}} *)
update_user_data(u) ==
    /\ points' = [points EXCEPT ![u] = SessionPoints(user_data[u])]
    /\ task' = Unfinished
    /\ UNCHANGED <<tree, service_ok, user_data, rl_calls, access_logs, rendered,
                   menus, nupd, nfault, rp, ls, conv, bc>>

(* a user who holds a file menu, and the application's persistence writes *)
InitPersist ==
    /\ InitFor({"u1"})
    /\ tree = TreeFull
    /\ service_ok
    /\ user_data["u1"] = OldMenuData

NextPersist == Step({"u1"}) \/ \E u \in {"u1"} : update_user_data(u)

SpecPersist == InitPersist /\ [][NextPersist]_vars

(***************************************************************************)
(* The setup conversation, src/handlers.py:39-112, registered in           *)
(* src/main.py:88-98.  The ConversationHandler picks the handler from the  *)
(* state stored for the user when the message arrives, awaits it, and then *)
(* stores the state that it returns; a handler that raises leaves the      *)
(* stored state as it is.  Every message is served by its own task, so a   *)
(* second message of the user may arrive while a handler awaits a reply.   *)
(* One action is one stretch of a handler between two awaits.              *)
(***************************************************************************)
Year1 == <<"1st", " ", "Year">>

(* the texts that filters.Regex(r"^(1st|2nd|3rd|4th) Year$") lets through *)
YearTexts == {Year1, Year2}

SetupTexts == YearTexts \cup {<<"CSE">>, <<"ME">>, <<" ", "Asha">>}

RECURSIVE LStrip(_)
LStrip(s) == IF s # << >> /\ s[1] = " " THEN LStrip(Tail(s)) ELSE s

RECURSIVE RStrip(_)
RStrip(s) == IF s # << >> /\ s[Len(s)] = " " THEN RStrip(SubSeq(s, 1, Len(s) - 1)) ELSE s

(* str.strip *)
Strip(s) == RStrip(LStrip(s))

ConvFrame ==
    UNCHANGED <<tree, service_ok, user_data, rl_calls, points, access_logs, task,
                rendered, menus, nupd, nfault, rp, ls, bc>>

Arrives(c) == conv.calls[c].pc = "idle" /\ conv.n < MaxMessages

(* src/handlers.py:39-64, for a user who is no owner *)
start(c) ==
    /\ Arrives(c)
    /\ conv.state = "END"
    /\ conv' = [conv EXCEPT !.n = @ + 1,
                            !.calls[c] = [NoCall EXCEPT
                                !.pc = "st_replying",
                                !.next = IF check_user_setup(conv) THEN "END"
                                         ELSE "ASK_YEAR"]]
    /\ ConvFrame

start_return(c) ==
    /\ conv.calls[c].pc = "st_replying"
    /\ conv' = [conv EXCEPT !.state = conv.calls[c].next, !.calls[c] = NoCall]
    /\ ConvFrame

(* src/handlers.py:66-71 *)
received_year(c, text) ==
    /\ Arrives(c)
    /\ conv.state = "ASK_YEAR"
    /\ text \in YearTexts
    /\ conv' = [conv EXCEPT !.n = @ + 1,
                            !.year = text,
                            !.calls[c] = [NoCall EXCEPT
                                !.pc = "ry_fetching",
                                !.year_folder_name = Replace(text, " ", "_")]]
    /\ ConvFrame

(* src/handlers.py:72-89: the lookups, up to the reply that tells their    *)
(* outcome; an exception that the Drive client lets through ends the call  *)
received_year_fetch(c) ==
    /\ conv.calls[c].pc = "ry_fetching"
    /\ \E fault \in DriveFaults, faultAt \in 0..2 :
        LET year_folder_id == get_folder_id(tree, FaultOf(fault, faultAt, 1), ROOT,
                                            conv.calls[c].year_folder_name)
            branches == list_items(tree, FaultOf(fault, faultAt, 2), year_folder_id,
                                   "folders")
            raised == /\ service_ok
                      /\ fault = "exc"
                      /\ \/ faultAt = 1
                         \/ faultAt = 2 /\ year_folder_id # None
        IN  conv' = [conv EXCEPT !.calls[c] =
                IF raised THEN NoCall
                ELSE IF ~service_ok \/ year_folder_id = None \/ branches = << >>
                THEN [@ EXCEPT !.pc = "ry_failed"]
                ELSE [@ EXCEPT !.pc = "ry_offering",
                               !.branch_names =
                                   [i \in DOMAIN branches |-> branches[i].name]]]
    /\ ConvFrame

(* src/handlers.py:75, 79, 83 and 90-91 *)
received_year_return(c) ==
    /\ conv.calls[c].pc \in {"ry_failed", "ry_offering"}
    /\ conv' = IF conv.calls[c].pc = "ry_failed"
               THEN [conv EXCEPT !.state = "END", !.calls[c] = NoCall]
               ELSE [conv EXCEPT !.available_branches = Held(conv.calls[c].branch_names),
                                 !.state = "ASK_BRANCH",
                                 !.calls[c] = NoCall]
    /\ ConvFrame

(* context.user_data.get('available_branches', []) *)
AvailableBranches(cv) ==
    IF cv.available_branches = Absent THEN << >> ELSE cv.available_branches[1]

(* src/handlers.py:93-102 *)
received_branch(c, text) ==
    /\ Arrives(c)
    /\ conv.state = "ASK_BRANCH"
    /\ text \in SetupTexts
    /\ conv' = IF text \notin Range(AvailableBranches(conv))
               THEN [conv EXCEPT !.n = @ + 1,
                                 !.calls[c] = [NoCall EXCEPT !.pc = "rb_invalid"]]
               ELSE [conv EXCEPT !.n = @ + 1,
                                 !.branch = text,
                                 !.calls[c] = [NoCall EXCEPT !.pc = "rb_asking"]]
    /\ ConvFrame

(* src/handlers.py:97 and 103 *)
received_branch_return(c) ==
    /\ conv.calls[c].pc \in {"rb_invalid", "rb_asking"}
    /\ conv' = [conv EXCEPT !.state = IF conv.calls[c].pc = "rb_invalid"
                                      THEN "ASK_BRANCH" ELSE "ASK_NAME",
                            !.calls[c] = NoCall]
    /\ ConvFrame

(* src/handlers.py:105-109 *)
received_name(c, text) ==
    /\ Arrives(c)
    /\ conv.state = "ASK_NAME"
    /\ text \in SetupTexts
    /\ conv' = [conv EXCEPT !.n = @ + 1,
                            !.name = Strip(text),
                            !.calls[c] = [NoCall EXCEPT !.pc = "rn_thanking"]]
    /\ ConvFrame

(* src/handlers.py:110-112 *)
received_name_return(c) ==
    /\ conv.calls[c].pc = "rn_thanking"
    /\ conv' = [conv EXCEPT !.available_branches = Absent,
                            !.state = "END",
                            !.calls[c] = NoCall]
    /\ ConvFrame

(* the reply_text that a handler awaits raises: the handler ends there and *)
(* the ConversationHandler stores no state                                 *)
reply_raises(c) ==
    /\ conv.calls[c].pc \in {"st_replying", "ry_fetching", "ry_failed", "ry_offering",
                             "rb_invalid", "rb_asking", "rn_thanking"}
    /\ conv' = [conv EXCEPT !.calls[c] = NoCall]
    /\ ConvFrame

InitSetup ==
    /\ tree = TreeTwoYears
    /\ service_ok \in BOOLEAN
    /\ user_data = [u \in Users |-> EmptyData]
    /\ rl_calls = [u \in Users |-> 0]
    /\ points = [u \in Users |-> 0]
    /\ access_logs = << >>
    /\ task = [t \in TaskIds |-> IdleTask]
    /\ rendered = [u \in Users |-> {}]
    /\ menus = [u \in Users |-> [current |-> {}, replaced |-> {}]]
    /\ nupd = 0
    /\ nfault = 0
    /\ rp = NoResolve
    /\ ls = NoListing
    /\ conv = NoConversation
    /\ bc = NoBroadcast

NextSetup ==
    \E c \in CallIds :
        \/ start(c)
        \/ start_return(c)
        \/ \E text \in SetupTexts : received_year(c, text)
        \/ received_year_fetch(c)
        \/ received_year_return(c)
        \/ \E text \in SetupTexts : received_branch(c, text)
        \/ received_branch_return(c)
        \/ \E text \in SetupTexts : received_name(c, text)
        \/ received_name_return(c)
        \/ reply_raises(c)

SpecSetup == InitSetup /\ [][NextSetup]_vars

(***************************************************************************)
(* broadcast_message_received, src/handlers.py:444-475: one run of the     *)
(* handler, cut at its awaits.  The documents of db["user_data"] are the   *)
(* sessions of user_data, found in the order of Documents.  forwarded      *)
(* holds the calls of message.forward that the run has made, each with     *)
(* the chat it went to and whether it succeeded.                           *)
(***************************************************************************)
Documents == <<"u1", "u2">>

ITData == [SetUpData EXCEPT !.branch = <<"IT">>]

TargetAll == [all |-> TRUE, year |-> NoName, branch |-> NoName]
TargetOf(year, branch) == [all |-> FALSE, year |-> year, branch |-> branch]

(* context.user_data['broadcast_target'] as the earlier steps of the      *)
(* conversation leave it                                                   *)
Targets == {TargetAll, TargetOf(Year2, <<"CSE">>), TargetOf(Year2, <<"IT">>)}

(* src/handlers.py:448-451: the query filter, applied to one document *)
QueryMatches(target, ud) ==
    target.all \/ (ud.year = target.year /\ ud.branch = target.branch)

(* src/handlers.py:453-454 *)
FindUserIds(target) ==
    SelectSeq(Documents, LAMBDA u : QueryMatches(target, user_data[u]))

BroadcastFrame ==
    UNCHANGED <<tree, service_ok, user_data, rl_calls, points, access_logs, task,
                rendered, menus, nupd, nfault, rp, ls, conv>>

(* src/handlers.py:445-447 *)
broadcast_message_received ==
    /\ bc.pc = "start"
    /\ bc' = [bc EXCEPT !.pc = "finding"]
    /\ BroadcastFrame

(* src/handlers.py:448-458 *)
broadcast_find ==
    /\ bc.pc = "finding"
    /\ LET user_ids == FindUserIds(bc.target)
       IN  bc' = [bc EXCEPT !.user_ids = user_ids,
                            !.pc = IF user_ids = << >> THEN "cancelling"
                                   ELSE "announcing"]
    /\ BroadcastFrame

(* src/handlers.py:456-457 *)
broadcast_cancelled ==
    /\ bc.pc = "cancelling"
    /\ bc' = [bc EXCEPT !.pc = "cancelled"]
    /\ BroadcastFrame

(* src/handlers.py:458-460 *)
broadcast_announced ==
    /\ bc.pc = "announcing"
    /\ bc' = [bc EXCEPT !.pc = "forwarding", !.i = 1,
                        !.success_count = 0, !.fail_count = 0]
    /\ BroadcastFrame

(* a loop that gives up at the first forward that fails *)
broadcast_forward_StopsOnFailure ==
    /\ bc.pc = "forwarding"
    /\ \E ok \in BOOLEAN :
        bc' = [bc EXCEPT
            !.forwarded = Append(@, [chat_id |-> bc.user_ids[bc.i], ok |-> ok]),
            !.success_count = IF ok THEN @ + 1 ELSE @,
            !.fail_count = IF ok THEN @ ELSE @ + 1,
            !.i = @ + 1,
            !.pc = IF bc.i = Len(bc.user_ids) \/ ~ok THEN "reporting" ELSE "forwarding"]
    /\ BroadcastFrame

(* src/handlers.py:461-468: one turn of the loop *)
broadcast_forward ==
    /\ bc.pc = "forwarding"
    /\ \E ok \in BOOLEAN :
        bc' = [bc EXCEPT
            !.forwarded = Append(@, [chat_id |-> bc.user_ids[bc.i], ok |-> ok]),
            !.success_count = IF ok THEN @ + 1 ELSE @,
            !.fail_count = IF ok THEN @ ELSE @ + 1,
            !.i = @ + 1,
            !.pc = IF bc.i = Len(bc.user_ids) THEN "reporting" ELSE "forwarding"]
    /\ BroadcastFrame

(* src/handlers.py:469-475 *)
broadcast_complete ==
    /\ bc.pc = "reporting"
    /\ bc' = [bc EXCEPT !.pc = "done"]
    /\ BroadcastFrame

(* a reply_text of the handler raises: the run ends there *)
broadcast_reply_raises ==
    /\ bc.pc \in {"finding", "cancelling", "announcing", "reporting"}
    /\ bc' = [bc EXCEPT !.pc = "raised"]
    /\ BroadcastFrame

InitBroadcast ==
    /\ tree = TreeFull
    /\ service_ok = TRUE
    /\ user_data \in [Users -> {EmptyData, SetUpData, ITData}]
    /\ rl_calls = [u \in Users |-> 0]
    /\ points = [u \in Users |-> 0]
    /\ access_logs = << >>
    /\ task = [t \in TaskIds |-> IdleTask]
    /\ rendered = [u \in Users |-> {}]
    /\ menus = [u \in Users |-> [current |-> {}, replaced |-> {}]]
    /\ nupd = 0
    /\ nfault = 0
    /\ rp = NoResolve
    /\ ls = NoListing
    /\ conv = NoConversation
    /\ \E target \in Targets : bc = [NoBroadcast EXCEPT !.pc = "start", !.target = target]

NextBroadcast ==
    \/ broadcast_message_received
    \/ broadcast_find
    \/ broadcast_cancelled
    \/ broadcast_announced
    \/ broadcast_forward
    \/ broadcast_complete
    \/ broadcast_reply_raises

SpecBroadcast == InitBroadcast /\ [][NextBroadcast]_vars

Init == InitFor({"u1"})

Next == Step({"u1"})

Spec == Init /\ [][Next]_vars

(***************************************************************************)
(* Properties.  What a menu should show is computed here from the tree     *)
(* itself, not by the client.                                              *)
(***************************************************************************)
LastEv(log) == IF log = << >> THEN NoEvent ELSE log[Len(log)]

EventsOf(log, k) == SelectSeq(log, LAMBDA e : e.k = k)

ChildIds(tr, parent, kind) ==
    {id \in Range(tr) : NodeParent(id) = parent /\ NodeKind(id) = kind}

(* the folders root/2nd_Year/CSE of a tree *)
BranchFolders(tr) ==
    {b \in ChildIds(tr, "Y2", "folder") :
        /\ "Y2" \in ChildIds(tr, ROOT, "folder")
        /\ NodeName("Y2") = <<"2nd", "_", "Year">>
        /\ NodeName(b) = <<"CSE">>}

(* the folders <subject>/Notes and <subject>/Assignments *)
KindFolders(tr, subject_id, command_type) ==
    {n \in ChildIds(tr, subject_id, "folder") :
        NodeName(n) = IF command_type = "notes" THEN <<"Notes">> ELSE <<"Assignments">>}

(* a keyboard shows one button per item of ids, labelled with its name *)
OneButtonPer(keyboard, ids, prefix) ==
    /\ Len(keyboard) = Cardinality(ids)
    /\ {Split(keyboard[i].callback_data)[2] : i \in DOMAIN keyboard} = ids
    /\ \A i \in DOMAIN keyboard :
        /\ Split(keyboard[i].callback_data)[1] = prefix
        /\ keyboard[i].text = NodeName(Split(keyboard[i].callback_data)[2])

(* no fault of Telegram or the Drive has struck the invocation *)
Unstruck(tk) == ~tk.tg_failed /\ tk.drive_fault = "ok" /\ ~tk.raised

(* /notes of a set-up user of 2nd Year, CSE: one button per subject *)
BrowseRendersSubjects(t) ==
    (/\ task[t].pc = "fsc_greeted" /\ task'[t].pc # "fsc_greeted"
     /\ task[t].data = <<"/notes">>
     /\ service_ok /\ Unstruck(task'[t])
     /\ user_data[task[t].u].year = Year2 /\ user_data[task[t].u].branch = <<"CSE">>
     /\ \E b \in BranchFolders(tree) : ChildIds(tree, b, "folder") # {})
    => \E b \in BranchFolders(tree) :
        /\ LastEv(task'[t].log).k = "reply_menu"
        /\ OneButtonPer(LastEv(task'[t].log).m, ChildIds(tree, b, "folder"), "subj")

(* the press of a subject button of that menu: one button per file of Notes *)
SubjectPressRendersFiles(t) ==
    LET parts == Split(task[t].data)
    IN  (/\ task[t].pc = "btn_answered" /\ task'[t].pc # "btn_answered"
         /\ task[t].data \in menus[task[t].u].current
         /\ parts[2] \in DOMAIN user_data[task[t].u].last_subject_names
         /\ service_ok /\ Unstruck(task'[t])
         /\ \E n \in KindFolders(tree, parts[2], parts[3]) : ChildIds(tree, n, "file") # {})
        => \E n \in KindFolders(tree, parts[2], parts[3]) :
            /\ LastEv(task'[t].log).k = "edit_menu"
            /\ OneButtonPer(LastEv(task'[t].log).m, ChildIds(tree, n, "file"), "dl")

(* the press of a file button: the "preparing" message names the file *)
FilePressPrepares(t) ==
    LET parts == Split(task[t].data)
    IN  (/\ task[t].pc = "btn_answered" /\ task'[t].pc # "btn_answered"
         /\ parts[1] = "dl"
         /\ parts[2] \in DOMAIN user_data[task[t].u].last_file_names
         /\ Unstruck(task'[t]))
        => /\ task'[t].pc = "btn_preparing"
           /\ task'[t].file_id = parts[2]
           /\ LastEv(task'[t].log) = Edit("preparing", NodeName(parts[2]))

(* the fetch is made once, on the file's id, and the document is sent *)
FetchDelivers(t) ==
    LET f == Split(task[t].data)[2]
    IN  (/\ task[t].pc = "btn_preparing" /\ task'[t].pc # "btn_preparing"
         /\ f \in Range(tree) /\ NodeKind(f) = "file"
         /\ service_ok /\ Unstruck(task'[t]))
        => /\ EventsOf(task'[t].log, "download_file") = <<Ev("download_file", f, NoName, << >>)>>
           /\ LastEv(task'[t].log) = Ev("send_document", download_file(tree, "ok", f),
                                        NodeName(f), << >>)
           /\ task'[t].pc = "btn_sent"

(* the "preparing" message is removed once the document is sent *)
PreparingRemoved(t) ==
    (/\ task[t].pc = "btn_sent" /\ task'[t].pc # "btn_sent"
     /\ Unstruck(task'[t]))
    => LastEv(task'[t].log) = Ev("delete", "", NoName, << >>)

(* C1: for a tree that holds root/2nd_Year/CSE/<subject>/Notes/f and a     *)
(* set-up session of that year and branch, /notes renders one button per   *)
(* subject, the press of a subject button one button per file of its Notes *)
(* folder, and the press of f's button fetches exactly f's id once, sends  *)
(* a document named like f and removes the "preparing" message, as long as *)
(* no call of Telegram or the Drive fails.                                 *)
C1_EndToEnd ==
    [][\A t \in TaskIds :
          /\ BrowseRendersSubjects(t)
          /\ SubjectPressRendersFiles(t)
          /\ FilePressPrepares(t)
          /\ FetchDelivers(t)
          /\ PreparingRemoved(t)]_vars

(* the three updates of the scenario have run from a fresh set-up session: *)
(* the menu of subjects is in place, f was fetched and sent, the message   *)
(* removed                                                                 *)
C1_Witness ==
    \E t \in TaskIds :
        /\ nupd = 3 /\ nfault = 0
        /\ task[t].data = Join(<<"dl", "F1">>)
        /\ task[t].pc = "done"
        /\ menus[task[t].u] = [current |-> {Join(<<"subj", "DSA", "notes">>)},
                               replaced |-> {}]
        /\ EventsOf(task[t].log, "send_document") =
               <<Ev("send_document", "F1", <<"unit1.pdf">>, << >>)>>
        /\ LastEv(task[t].log).k = "delete"

DriveEvents == {"get_folder_id", "list_items", "download_file"}

InFlightOf(u) == {t \in TaskIds : InFlight(t) /\ task[t].u = u}

(* C2: at most one guarded operation of a user is in flight, and a request *)
(* that busy_lock rejects ends at once with the "please wait" notice and   *)
(* without a call of the remote tree.                                      *)
C2_BusyExclusion ==
    /\ \A u \in Users : Cardinality(InFlightOf(u)) <= 1
    /\ \A t \in TaskIds :
        task[t].verdict = "busy" =>
            /\ task[t].pc = "done"
            /\ \A i \in DOMAIN task[t].log : task[t].log[i] = Reply("please_wait")

(* a user is never busy with no guarded operation in flight *)
NoOrphanBusy == \A u \in Users : user_data[u].is_busy => InFlightOf(u) # {}

(* an invocation that busy_lock admits holds the flag before it has made a *)
(* call of the remote tree                                                 *)
SetOnEntry(t) ==
    (/\ task[t].pc \in {"idle", "done"}
     /\ task'[t].verdict = "admitted" /\ task'[t].pc \notin {"idle", "done"})
    => /\ user_data'[task'[t].u].is_busy
       /\ \A i \in DOMAIN task'[t].log : task'[t].log[i].k \notin DriveEvents

(* the step that ends an operation, by a return or by an exception, leaves *)
(* the flag clear                                                          *)
ClearedOnExit(t) ==
    (InFlight(t) /\ task'[t].pc = "done") => ~user_data'[task[t].u].is_busy

(* C3: the busy flag is set before any remote call of a guarded operation  *)
(* and is clear after every exit of file_selection_command and             *)
(* button_handler, so no state leaves a user busy with nothing in flight.  *)
C3_BusyRelease ==
    /\ []NoOrphanBusy
    /\ [][\A t \in TaskIds : SetOnEntry(t) /\ ClearedOnExit(t)]_vars

(* an operation that a fault of the Drive has struck has ended with an     *)
(* exception, and the user is not busy                                     *)
C3_Witness ==
    \E t \in TaskIds :
        /\ task[t].pc = "done" /\ task[t].verdict = "admitted"
        /\ task[t].raised /\ task[t].drive_fault = "exc"
        /\ ~user_data[task[t].u].is_busy

WaitMessages(log) == EventsOf(log, "wait_message")

(* the final outcome message of a download: the document or the failure    *)
(* notice                                                                  *)
IsOutcome(e) == e.k = "send_document" \/ (e.k = "edit" /\ e.a = "failed")

(* C4: when the fetch of a download takes longer than the notifier's delay, *)
(* exactly one "still waiting" message is sent, and it is sent before the  *)
(* document or the failure notice.                                         *)
C4_SlowFetchNotified ==
    \A t \in TaskIds :
        (task[t].fetched /\ task[t].slow /\ \E j \in DOMAIN task[t].log : IsOutcome(task[t].log[j]))
        => /\ Len(WaitMessages(task[t].log)) = 1
           /\ \E i, j \in DOMAIN task[t].log :
                /\ i < j
                /\ task[t].log[i].k = "wait_message"
                /\ IsOutcome(task[t].log[j])

(* the notifier of an invocation whose fetch is over has been cancelled,   *)
(* and a fetch that was faster than the delay has no "still waiting"       *)
(* message                                                                 *)
CancelledAfterFetch ==
    \A t \in TaskIds :
        task[t].fetched =>
            /\ task[t].wait \in {"cancelled", "ended"}
            /\ ~task[t].slow => WaitMessages(task[t].log) = << >>

(* a cancelled notifier sends nothing *)
SilentOnceCancelled(t) ==
    task[t].wait \in {"cancelled", "ended"}
    => /\ Len(WaitMessages(task'[t].log)) <= Len(WaitMessages(task[t].log))
       /\ task'[t].wait \in {"cancelled", "ended", "none"}

(* C5: a fetch that completes before the notifier's delay sends no "still  *)
(* waiting" message; no such message is sent once the notifier is          *)
(* cancelled; and the notifier is cancelled on every exit of the fetch,    *)
(* the raising one included.                                               *)
C5_NotifierRaceFree ==
    /\ []CancelledAfterFetch
    /\ [][\A t \in TaskIds : SilentOnceCancelled(t)]_vars

(* a fast fetch has delivered its document and the cancelled notifier has  *)
(* ended without a message                                                 *)
C5_Witness ==
    \E t \in TaskIds :
        /\ task[t].fetched /\ ~task[t].slow
        /\ task[t].wait = "ended"
        /\ EventsOf(task[t].log, "send_document") # << >>
        /\ WaitMessages(task[t].log) = << >>

(* every button of a keyboard carries a token that the cache resolves to   *)
(* the item the button shows: the id of an item of the tree, under the     *)
(* name that is the button's label                                         *)
RoundTrips(keyboard, prefix, cache) ==
    \A i \in DOMAIN keyboard :
        LET data_parts == Split(keyboard[i].callback_data)
        IN  /\ data_parts[1] = prefix
            /\ data_parts[2] \in Range(tree)
            /\ NodeName(data_parts[2]) = keyboard[i].text
            /\ Lookup(cache, data_parts[2]) = keyboard[i].text

RendersRoundTrip(t) ==
    LET shown == LastEv(task'[t].log)
        session == user_data'[task[t].u]
    IN  /\ (task[t].pc = "fsc_greeted" /\ task'[t].pc # "fsc_greeted"
            /\ shown.k = "reply_menu")
           => RoundTrips(shown.m, "subj", session.last_subject_names)
        /\ (task[t].pc = "btn_answered" /\ task'[t].pc # "btn_answered"
            /\ shown.k = "edit_menu")
           => RoundTrips(shown.m, "dl", session.last_file_names)

(* C6: right after file_selection_command has rendered a subject menu, or  *)
(* button_handler a file menu, the token of every button of the menu looks *)
(* up, in last_subject_names or last_file_names, the item the button was   *)
(* rendered for: its id, under the name on the button.                     *)
C6_TokenRoundTrip == [][\A t \in TaskIds : RendersRoundTrip(t)]_vars

(* a file menu of two buttons has just been rendered *)
C6_Witness ==
    \E t \in TaskIds :
        /\ task[t].pc = "release"
        /\ LastEv(task[t].log).k = "edit_menu"
        /\ Len(LastEv(task[t].log).m) = 2
        /\ DOMAIN user_data[task[t].u].last_file_names = {"F1", "F2"}

Matches(tr, parent, name, fold) ==
    {id \in Range(tr) :
        /\ NodeParent(id) = parent
        /\ NodeKind(id) = "folder"
        /\ IF fold THEN Lower(NodeName(id)) = Lower(name) ELSE NodeName(id) = name}

(* the folders that the segments lead to from the root *)
RECURSIVE Terminals(_, _, _, _)
Terminals(tr, root, segments, fold) ==
    IF segments = << >> THEN {root}
    ELSE UNION {Matches(tr, p, segments[Len(segments)], fold) :
                   p \in Terminals(tr, root, SubSeq(segments, 1, Len(segments) - 1), fold)}

Segments(calls) == [j \in DOMAIN calls |-> calls[j][1]]

(* call j looks up a segment that a folder matches under the folder        *)
(* reached so far                                                          *)
Found(calls, j, fold) == Matches(tree, calls[j][2], calls[j][1], fold) # {}

(* the calls look the segments up in order, each under the folder that the *)
(* call before it found                                                    *)
WalksFrom(root, segments, calls, fold) ==
    /\ Len(calls) <= Len(segments)
    /\ \A j \in DOMAIN calls :
        /\ calls[j][1] = segments[j]
        /\ calls[j][2] \in Terminals(tree, root, SubSeq(segments, 1, j - 1), fold)

(* C8: when every segment names an existing folder under the folder        *)
(* reached so far, resolve_path_to_id and the year-then-branch lookups of  *)
(* file_selection_command look up every segment and return the id of the  *)
(* folder that the segments lead to; for the empty path the resolver       *)
(* returns the root and makes no call (the Drive not failing).             *)
C8_ResolvesExistingPath ==
    rp.fault = "ok" =>
        /\ (rp.pc = "done" /\ \A j \in DOMAIN rp.r.calls : Found(rp.r.calls, j, TRUE))
           => /\ WalksFrom(rp.root, rp.parts, rp.r.calls, TRUE)
              /\ Len(rp.r.calls) = Len(rp.parts)
              /\ rp.r.result \in Terminals(tree, rp.root, rp.parts, TRUE)
              /\ rp.parts = << >> => rp.r.result = rp.root
        /\ (rp.pc = "looked" /\ \A j \in DOMAIN rp.h.calls : Found(rp.h.calls, j, FALSE))
           => /\ Len(rp.h.calls) = 2
              /\ Segments(rp.h.calls)[2] = rp.parts[2]
              /\ WalksFrom(rp.root, Segments(rp.h.calls), rp.h.calls, FALSE)
              /\ rp.h.result \in Terminals(tree, rp.root, Segments(rp.h.calls), FALSE)

(* a path of three segments has been resolved to the folder of a subject *)
C8_Witness ==
    /\ rp.pc = "done" /\ rp.fault = "ok"
    /\ rp.root = ROOT
    /\ rp.parts = <<NodeName("Y2"), <<"CSE">>, <<"DSA">> >>
    /\ Len(rp.r.calls) = 3
    /\ rp.r.result = "DSA"

C10_DownloadFailureNoticed ==
    \A t \in TaskIds :
        (/\ task[t].fetched /\ task[t].file_content = None
         /\ ~task[t].tg_failed /\ task[t].pc = "done")
        => /\ LastEv(task[t].log) = Edit("failed", task[t].file_name)
           /\ EventsOf(task[t].log, "send_document") = << >>

(* the places of the events of kind k in a log *)
Places(log, k) == {i \in DOMAIN log : log[i].k = k}

Preparings(log) == {i \in DOMAIN log : log[i].k = "edit" /\ log[i].a = "preparing"}

(* every event at a place of later has an event at a place of earlier      *)
(* before it                                                               *)
Precede(earlier, later) == \A j \in later : \E i \in earlier : i < j

(* C11: in the invocation of a file-button press the message is edited to  *)
(* "preparing" before the fetch starts, the document is sent after the     *)
(* fetch, with the content it returned and under the file's name, the      *)
(* "preparing" message is removed after the document is sent, and a press  *)
(* sends at most one document: exactly one when the fetch returned content *)
(* and no call of Telegram failed.                                         *)
C11_DownloadOrdered ==
    \A t \in TaskIds :
        LET log == task[t].log
        IN  /\ Precede(Preparings(log), Places(log, "download_file"))
            /\ Precede(Places(log, "download_file"), Places(log, "send_document"))
            /\ Precede(Places(log, "send_document"), Places(log, "delete"))
            /\ Cardinality(Places(log, "download_file")) <= 1
            /\ Cardinality(Places(log, "send_document")) <= 1
            /\ \A j \in Places(log, "send_document") :
                /\ task[t].file_content # None
                /\ log[j] = Ev("send_document", task[t].file_content,
                               task[t].file_name, << >>)
            /\ (task[t].fetched /\ task[t].file_content # None /\ ~task[t].tg_failed)
               => Cardinality(Places(log, "send_document")) = 1

(* a press has run to its end: "preparing", the fetch, the document, the   *)
(* removal                                                                 *)
C11_Witness ==
    \E t \in TaskIds :
        /\ task[t].pc = "done"
        /\ task[t].file_name = <<"unit2.pdf">>
        /\ task[t].log = <<Ev("answer", "", NoName, << >>),
                           Edit("preparing", <<"unit2.pdf">>),
                           Ev("download_file", "F2", NoName, << >>),
                           Ev("send_document", "F2", <<"unit2.pdf">>, << >>),
                           Ev("delete", "", NoName, << >>)>>

(* the invocation is about to look up a subject or file token that the     *)
(* session of the pressing user does not hold                              *)
MissingPress(t) ==
    LET data_parts == Split(task[t].data)
        session == user_data[task[t].u]
    IN  /\ task[t].pc = "btn_answered" /\ ~task[t].exc
        /\ \/ data_parts[1] = "subj" /\ data_parts[2] \notin DOMAIN session.last_subject_names
           \/ data_parts[1] = "dl" /\ data_parts[2] \notin DOMAIN session.last_file_names

RetryNotice(e) == e \in {Edit("retry_command", NoName), Edit("retry", NoName)}

MissingToldToRetry(t) ==
    (MissingPress(t) /\ task'[t].pc # "btn_answered")
    => /\ \A i \in DOMAIN task'[t].log :
            task'[t].log[i].k \notin DriveEvents \cup {"edit_menu", "reply_menu", "send_document"}
       /\ ~task'[t].tg_failed => RetryNotice(LastEv(task'[t].log))
       /\ task'[t].pc = "release"
       /\ user_data'[task[t].u].last_subject_names = user_data[task[t].u].last_subject_names
       /\ user_data'[task[t].u].last_file_names = user_data[task[t].u].last_file_names
       /\ rendered' = rendered
       /\ access_logs' = access_logs

MissingEndsIdle(t) ==
    (task[t].pc = "release" /\ RetryNotice(LastEv(task[t].log)) /\ task'[t].pc = "done")
    => /\ ~task'[t].raised
       /\ ~user_data'[task[t].u].is_busy

(* C12: a pressed subject or file button whose token the user's cache does *)
(* not hold is answered with the request to retry; the invocation calls    *)
(* the remote tree not at all, renders no menu, sends no document, leaves  *)
(* the cache as it is, and ends without an exception and with the user no  *)
(* longer busy (the request to retry itself being delivered).              *)
C12_MissingToken ==
    [][\A t \in TaskIds : MissingToldToRetry(t) /\ MissingEndsIdle(t)]_vars

(* the button of a file that the session no longer holds was pressed: the  *)
(* user was told to retry and the invocation is over                       *)
C12_Witness ==
    \E t \in TaskIds :
        /\ task[t].pc = "done" /\ ~task[t].raised
        /\ Split(task[t].data)[1] = "dl"
        /\ task[t].log = <<Ev("answer", "", NoName, << >>), Edit("retry", NoName)>>
        /\ ~user_data[task[t].u].is_busy

(* the branch folder of the user exists and holds no subject folder *)
NoSubjects(tr) ==
    /\ BranchFolders(tr) # {}
    /\ \A b \in BranchFolders(tr) : ChildIds(tr, b, "folder") = {}

EmptyBranchReported(t) ==
    (/\ task[t].pc = "fsc_greeted" /\ task'[t].pc # "fsc_greeted"
     /\ ~task[t].exc
     /\ service_ok /\ Unstruck(task'[t])
     /\ user_data[task[t].u].year = Year2 /\ user_data[task[t].u].branch = <<"CSE">>
     /\ NoSubjects(tree))
    => /\ LastEv(task'[t].log) = Reply("no_subjects")
       /\ EventsOf(task'[t].log, "reply_menu") = << >>
       /\ task'[t].pc = "fsc_return"
       /\ rendered' = rendered /\ menus' = menus
       /\ user_data'[task[t].u] = user_data[task[t].u]

EmptyBranchEndsIdle(t) ==
    (/\ task[t].pc = "fsc_return" /\ task'[t].pc = "done"
     /\ LastEv(task[t].log) = Reply("no_subjects"))
    => /\ ~task'[t].raised
       /\ ~user_data'[task[t].u].is_busy

(* C13: when the branch folder of the user holds no subject folder,        *)
(* file_selection_command replies "no subjects found", renders no menu and *)
(* changes nothing of the session but the busy flag, which is clear when   *)
(* the invocation ends: the next browse command starts afresh (no call of  *)
(* Telegram or the Drive failing).                                         *)
C13_NoSubjects ==
    [][\A t \in TaskIds : EmptyBranchReported(t) /\ EmptyBranchEndsIdle(t)]_vars

(* a browse of a branch without subjects has ended, with the one reply     *)
(* after the greeting, and the user is not busy                            *)
C13_Witness ==
    \E t \in TaskIds :
        /\ task[t].pc = "done" /\ task[t].kind = "command"
        /\ NoSubjects(tree) /\ Unstruck(task[t])
        /\ LastEv(task[t].log) = Reply("no_subjects")
        /\ ~user_data[task[t].u].is_busy

(* the invocation is about to look up a subject token that the session     *)
(* holds, with the Drive at hand                                           *)
SubjectPress(t) ==
    LET data_parts == Split(task[t].data)
    IN  /\ task[t].pc = "btn_answered" /\ ~task[t].exc
        /\ data_parts[1] = "subj"
        /\ data_parts[2] \in DOMAIN user_data[task[t].u].last_subject_names
        /\ service_ok

(* what the press should report: the subfolder is absent, or it is there   *)
(* and holds no file                                                       *)
NothingToShow(tr, subject_id, command_type) ==
    LET folders == KindFolders(tr, subject_id, command_type)
    IN  IF folders = {} THEN "no_subfolder"
        ELSE IF \A n \in folders : ChildIds(tr, n, "file") = {} THEN "no_files"
        ELSE "files"

NothingShownReported(t) ==
    LET data_parts == Split(task[t].data)
        nothing == NothingToShow(tree, data_parts[2], data_parts[3])
        subject_name == user_data[task[t].u].last_subject_names[data_parts[2]]
    IN  (/\ SubjectPress(t) /\ task'[t].pc # "btn_answered"
         /\ Unstruck(task'[t])
         /\ nothing # "files")
        => /\ LastEv(task'[t].log) = Edit(nothing, subject_name)
           /\ EventsOf(task'[t].log, "edit_menu") = << >>
           /\ task'[t].pc = "release"
           /\ rendered' = rendered
           /\ user_data'[task[t].u] = user_data[task[t].u]

NothingShownEndsIdle(t) ==
    (/\ task[t].pc = "release" /\ task'[t].pc = "done"
     /\ LastEv(task[t].log).k = "edit"
     /\ LastEv(task[t].log).a \in {"no_subfolder", "no_files"})
    => /\ ~task'[t].raised
       /\ ~user_data'[task[t].u].is_busy

(* C14: when the token of a pressed subject button resolves and the Notes  *)
(* or Assignments folder of the subject is absent, or holds no file,       *)
(* button_handler tells the user so, naming the subject, renders no file   *)
(* menu, and ends without an exception and with the user no longer busy    *)
(* (no call of Telegram or the Drive failing).                             *)
C14_NothingToShow ==
    [][\A t \in TaskIds : NothingShownReported(t) /\ NothingShownEndsIdle(t)]_vars

(* the press of a subject whose Notes folder is empty has ended *)
C14_Witness ==
    \E t \in TaskIds :
        /\ task[t].pc = "done" /\ ~task[t].raised
        /\ task[t].data = Join(<<"subj", "DSA", "notes">>)
        /\ NothingToShow(tree, "DSA", "notes") = "no_files"
        /\ LastEv(task[t].log) = Edit("no_files", <<"DSA">>)

(* the messages that tell of a failure, and those that tell that a folder  *)
(* or a listing has nothing                                                *)
FailureNotice(e) ==
    \/ e = Reply("error")
    \/ e.k = "edit" /\ e.a = "failed"

NotFoundNotice(e) ==
    e.k \in {"reply", "edit"}
    /\ e.a \in {"no_year", "no_branch", "no_subjects", "no_subfolder", "no_files"}

(* C15: an invocation of file_selection_command or button_handler that a   *)
(* transport or API error of a remote-tree call has struck sends exactly   *)
(* one failure message, and does not report the failed call as a folder    *)
(* not found or as an empty listing (the calls of Telegram not failing).   *)
C15_RemoteFailureReported ==
    \A t \in TaskIds :
        (task[t].drive_fault # "ok" /\ task[t].pc = "done" /\ ~task[t].tg_failed)
        => /\ Cardinality({i \in DOMAIN task[t].log : FailureNotice(task[t].log[i])}) = 1
           /\ \A i \in DOMAIN task[t].log : ~NotFoundNotice(task[t].log[i])

(* invocation t takes the step, or begins with it *)
Acts(t) == task'[t] # task[t] /\ task'[t].pc # "idle"

(* a step of an invocation leaves the sessions of the other users alone *)
OthersUntouched(t) ==
    Acts(t) => \A b \in Users \ {task'[t].u} : user_data'[b] = user_data[b]

(* a token resolves only from the session of the user who pressed it *)
ResolvesFromOwnCache(t) ==
    LET data_parts == Split(task[t].data)
        session == user_data[task[t].u]
    IN  (task[t].pc = "btn_answered" /\ task'[t].pc # "btn_answered")
        => /\ task'[t].subject_name # NoName
              => /\ data_parts[2] \in DOMAIN session.last_subject_names
                 /\ task'[t].subject_name = session.last_subject_names[data_parts[2]]
           /\ task'[t].pc = "btn_preparing"
              => /\ data_parts[2] \in DOMAIN session.last_file_names
                 /\ task'[t].file_name = session.last_file_names[data_parts[2]]

(* a request is rejected as busy only when its own user is busy *)
RejectedForOwnFlag(t) ==
    (Acts(t) /\ nupd' = nupd + 1 /\ task'[t].verdict = "busy")
    => user_data[task'[t].u].is_busy

(* C16: no step of a command or button press of one user changes the menu  *)
(* caches or the busy flag of another user; a pressed token resolves only  *)
(* to what the cache of the pressing user holds for it; and a request is   *)
(* rejected as busy only when the user who sent it is busy.                *)
C16_PerUserIsolation ==
    [][\A t \in TaskIds :
          OthersUntouched(t) /\ ResolvesFromOwnCache(t) /\ RejectedForOwnFlag(t)]_vars

(* while u1 is busy, u2 has pressed a subject button that was rendered for *)
(* u1: the press was admitted and found no subject in u2's cache           *)
C16_Witness ==
    \E t \in TaskIds :
        /\ task[t].u = "u2" /\ task[t].verdict = "admitted"
        /\ task[t].data = Join(<<"subj", "DSA", "notes">>)
        /\ task[t].data \in rendered["u1"] \ rendered["u2"]
        /\ LastEv(task[t].log) = Edit("retry_command", NoName)
        /\ user_data["u1"].is_busy
        /\ user_data["u1"].last_subject_names # EmptyMap

(* C17: a call of list_items that the remote listing does not fail returns *)
(* every child of the parent that is of the kind asked for, and no other   *)
(* item, however many children the parent has.                             *)
C17_ListsEveryChild ==
    (ls.pc = "listed" /\ ls.fault = "ok")
    => /\ {ls.files[i].id : i \in DOMAIN ls.files}
          = ChildIds(tree, "BIG", IF ls.item_type = "folders" THEN "folder" ELSE "file")
       /\ \A i, j \in DOMAIN ls.files : ls.files[i].id = ls.files[j].id => i = j

(* callback data of another feature: it starts with "stats_", or its       *)
(* action is neither subj nor dl                                           *)
Foreign(data) == StartsWithStats(data) \/ Split(data)[1] \notin {"subj", "dl"}

(* the press of invocation t has passed busy_lock and carries foreign data *)
ForeignPress(t) ==
    /\ task[t].kind = "button"
    /\ task[t].verdict = "admitted"
    /\ Foreign(task[t].data)

(* the handler returns at its dispatch and changes nothing on the way *)
ForeignDeclined(t) ==
    (ForeignPress(t) /\ task[t].pc = "btn_answered" /\ task'[t] # task[t])
    => /\ task'[t].pc = "done"
       /\ task'[t].log = task[t].log
       /\ user_data'[task[t].u].last_subject_names
              = user_data[task[t].u].last_subject_names
       /\ user_data'[task[t].u].last_file_names
              = user_data[task[t].u].last_file_names
       /\ access_logs' = access_logs
       /\ points' = points
       /\ rendered' = rendered

(* C18: a button press that busy_lock admits and whose callback data is of *)
(* another feature (it starts with "stats_", or its action is neither subj *)
(* nor dl) is answered and then left alone: button_handler returns at the  *)
(* dispatch, it calls the remote tree never, sends and edits no message,   *)
(* and leaves last_subject_names, last_file_names, the access log and the  *)
(* points unchanged.                                                       *)
C18_ForeignPassThrough ==
    /\ [](\A t \in TaskIds :
            ForeignPress(t) => \A i \in DOMAIN task[t].log : task[t].log[i].k = "answer")
    /\ [][\A t \in TaskIds : ForeignDeclined(t)]_vars

(* a user who holds a subject menu has pressed a button of another         *)
(* feature: the press was admitted and answered, and the handler returned  *)
C18_Witness ==
    \E t \in TaskIds :
        /\ ForeignPress(t)
        /\ task[t].pc = "done"
        /\ ~task[t].raised
        /\ task[t].log = <<Ev("answer", "", NoName, << >>)>>
        /\ user_data[task[t].u].last_subject_names # EmptyMap

(* the names of the items in ascending order of their code points: the     *)
(* space before the digits, the digits before the capitals, the capitals   *)
(* before "_", and "_" before the small letters                            *)
NamesAscending ==
    << <<"2nd", " ", "Year">>, <<"2nd", "_", "Year">>, <<"Assignments">>, <<"CSE">>,
       <<"DSA">>, <<"IT">>, <<"NET">>, <<"Notes">>, <<"OS">>, <<"cse">>,
       <<"hw1.pdf">>, <<"old">>, <<"readme.txt">>, <<"unit1.pdf">>, <<"unit2.pdf">> >>

NameRank(name) == CHOOSE i \in DOMAIN NamesAscending : NamesAscending[i] = name

Ascending(keyboard) ==
    \A i, j \in DOMAIN keyboard :
        i < j => NameRank(keyboard[i].text) <= NameRank(keyboard[j].text)

(* C19: the buttons of every subject menu and of every file menu that the  *)
(* bot has rendered stand in ascending order of the names of their items,  *)
(* whatever the order in which the remote listing returned the items.      *)
C19_MenusSorted ==
    \A t \in TaskIds : \A i \in DOMAIN task[t].log : Ascending(task[t].log[i].m)

(* the step resolves the token of a file button: the press goes on to the  *)
(* download                                                                *)
ReachesDownload(t) == task[t].pc = "btn_answered" /\ task'[t].pc = "btn_preparing"

(* C20: a step of a browse command or of a button press adds exactly one   *)
(* point to its user when it resolves the token of a file button, so that  *)
(* the press goes on to the download, and leaves the user's points as they *)
(* are otherwise (a press that ends as Missing, a subject press, a browse  *)
(* command); it never changes the points of another user.                  *)
C20_PointsOnDownload ==
    [][\A t \in TaskIds :
          Acts(t) => points' = [points EXCEPT ![task'[t].u] =
                                   IF ReachesDownload(t) THEN @ + 1 ELSE @]]_vars

(* the session of u holds no profile and no menu *)
Cleared(u) ==
    /\ user_data[u].year = NoName /\ user_data[u].branch = NoName
    /\ user_data[u].name = NoName
    /\ user_data[u].last_subject_names = EmptyMap
    /\ user_data[u].last_file_names = EmptyMap

(* invocation t begins with the step *)
Begins(t) == Acts(t) /\ nupd' = nupd + 1

(* a press of a subject or file button by a user whose session is cleared  *)
(* ends as Missing: the retry notice, no remote call, no menu              *)
ClearedPressMissing(t) ==
    (/\ task[t].pc = "btn_answered" /\ ~task[t].exc
     /\ Cleared(task[t].u)
     /\ ~Foreign(task[t].data)
     /\ task'[t].pc # "btn_answered")
    => /\ \A i \in DOMAIN task'[t].log :
            task'[t].log[i].k \notin DriveEvents \cup {"edit_menu", "send_document"}
       /\ ~task'[t].tg_failed => RetryNotice(LastEv(task'[t].log))
       /\ task'[t].pc = "release"
       /\ task'[t].file_id = None

(* a browse command of a user whose session is cleared, once the guards    *)
(* have admitted it, is answered with the request to run /start            *)
ClearedBrowseToldToStart(t) ==
    (/\ Begins(t)
     /\ task'[t].kind = "command" /\ task'[t].verdict = "admitted"
     /\ Cleared(task'[t].u))
    => /\ task'[t].pc = "fsc_return"
       /\ task'[t].log = IF task'[t].tg_failed THEN << >> ELSE <<Reply("run_start")>>

(* a browse command that did not greet calls the remote tree never and     *)
(* renders no menu                                                         *)
UngreetedBrowseIsLocal(t) ==
    (task[t].kind = "command" /\ EventsOf(task[t].log, "reply") # << >>
     /\ Reply("greeting") \notin Range(task[t].log))
    => \A i \in DOMAIN task[t].log : task[t].log[i].k = "reply"

(* C21: reset_command leaves the user's year, branch, name and both menu   *)
(* caches empty, and they stay empty (the model has no onboarding); a      *)
(* session without a complete profile is a cleared one; from then on every *)
(* subject or file button the user presses ends as Missing, and every      *)
(* browse command that the guards admit is answered with the request to    *)
(* run /start, without a call of the remote tree and without a menu.       *)
C21_ResetDestroysSession ==
    /\ [](\A u \in Users : ~check_user_setup(user_data[u]) => Cleared(u))
    /\ [](\A t \in TaskIds : UngreetedBrowseIsLocal(t))
    /\ [][\A u \in Users : (reset_command(u) \/ Cleared(u)) => Cleared(u)']_vars
    /\ [][\A t \in TaskIds : ClearedPressMissing(t) /\ ClearedBrowseToldToStart(t)]_vars

(* a user who held menus has reset the session and then pressed a file     *)
(* button rendered before the reset: the press got the retry notice        *)
C21_Witness ==
    \E t \in TaskIds :
        /\ task[t].kind = "button"
        /\ task[t].verdict = "admitted"
        /\ task[t].data \in OldMenuFiles
        /\ task[t].data \in rendered[task[t].u]
        /\ Cleared(task[t].u)
        /\ LastEv(task[t].log) = Edit("retry", NoName)

(* the folders of the tree that a lookup of the name under the parent asks *)
(* for: direct children of the parent, not in the trash, of that very name *)
FoldersNamed(tr, parent, name) ==
    {id \in Range(tr) : /\ NodeParent(id) = parent
                        /\ NodeKind(id) = "folder"
                        /\ ~Trashed(id)
                        /\ NodeName(id) = name}

(* C22: get_folder_id(parent, name) returns, when the request does not     *)
(* fail, the id of a folder that is a direct child of parent, is not in    *)
(* the trash and bears exactly that name (in the same case) whenever there *)
(* is one, and not-found when there is none; whatever the request does, it *)
(* never returns a file, a folder under another parent, a folder in the    *)
(* trash or a folder of another name.                                      *)
C22_FindChildExact ==
    rp.pc = "found"
    => LET asked == FoldersNamed(tree, rp.root, rp.parts[1])
       IN  /\ rp.h.result # None => rp.h.result \in asked
           /\ (rp.fault = "ok" /\ asked # {}) => rp.h.result \in asked
           /\ asked = {} => rp.h.result = None

(* the lookup of CSE under a year that holds cse before CSE has returned   *)
(* the folder CSE                                                          *)
C22_Witness ==
    /\ rp.pc = "found"
    /\ tree = TreeBothCases
    /\ rp.root = "Y2" /\ rp.parts = << <<"CSE">> >>
    /\ rp.h.result = "CSE"

(* the step of invocation t ends with the render of a menu of kind k *)
Renders(t, k) ==
    /\ Len(task'[t].log) > Len(task[t].log)
    /\ LastEv(task'[t].log).k = k

(* the map from the ids of the buttons of a keyboard to their texts *)
ShownNames(keyboard) ==
    [id \in {Split(keyboard[i].callback_data)[2] : i \in DOMAIN keyboard} |->
        LET i == CHOOSE j \in DOMAIN keyboard : Split(keyboard[j].callback_data)[2] = id
        IN  keyboard[i].text]

(* C23: when a step renders a subject menu, the user's last_subject_names  *)
(* is afterwards exactly the map of that menu's subjects, and when a step  *)
(* renders a file menu, last_file_names is afterwards exactly the map of   *)
(* that menu's files: no entry of an earlier menu of the level is kept     *)
(* unless the new menu shows the same id.                                  *)
C23_CacheReplaced ==
    [][\A t \in TaskIds :
          /\ Renders(t, "reply_menu")
             => user_data'[task[t].u].last_subject_names
                    = ShownNames(LastEv(task'[t].log).m)
          /\ Renders(t, "edit_menu")
             => user_data'[task[t].u].last_file_names
                    = ShownNames(LastEv(task'[t].log).m)]_vars

(* a user who held the file menu of unit1.pdf and hw1.pdf was shown the    *)
(* file menu of the notes of DSA: the cache holds unit1.pdf and unit2.pdf  *)
(* and no longer hw1.pdf, whose button the chat still shows                *)
C23_Witness ==
    \E t \in TaskIds :
        /\ LastEv(task[t].log).k = "edit_menu"
        /\ task[t].pc = "release"
        /\ Join(<<"dl", "F3">>) \in rendered[task[t].u]
        /\ DOMAIN user_data[task[t].u].last_file_names = {"F1", "F2"}

(* invocation t is the press of a file button whose token resolved *)
ResolvedFilePress(t) == task[t].kind = "button" /\ task[t].file_id # None

(* the step with which the handling of a resolved file press ends leaves   *)
(* the busy flag clear                                                     *)
FilePressEndsClear(t) ==
    (ResolvedFilePress(t) /\ task[t].pc # "done" /\ task'[t].pc = "done")
    => ~user_data'[task[t].u].is_busy

(* a browse command of a user whose flag is clear is not told to wait: it  *)
(* is admitted and begins at the setup check, unless rate_limit rejects it *)
BrowseStartsFresh(t) ==
    (/\ Begins(t) /\ task'[t].kind = "command"
     /\ ~user_data[task'[t].u].is_busy
     /\ task'[t].verdict # "limited")
    => /\ task'[t].verdict = "admitted"
       /\ task'[t].pc \in {"fsc_greeted", "fsc_return"}
       /\ Reply("please_wait") \notin Range(task'[t].log)
       /\ task'[t].log \in {<< >>, <<Reply("greeting")>>, <<Reply("run_start")>>}

(* C24: the step that ends the handling of a file-button press whose token *)
(* resolved leaves the user's busy flag clear, whether the file was sent,  *)
(* the download failed or an exception left the handler; while such a      *)
(* press is the user's last finished request and nothing of the user is in *)
(* flight the flag is clear; and a browse command that finds the flag      *)
(* clear is admitted and processed from the setup check on.                *)
C24_IdleAfterFilePress ==
    /\ [](\A t \in TaskIds :
            (ResolvedFilePress(t) /\ task[t].pc = "done" /\ InFlightOf(task[t].u) = {})
            => ~user_data[task[t].u].is_busy)
    /\ [][\A t \in TaskIds : FilePressEndsClear(t) /\ BrowseStartsFresh(t)]_vars

(* the press of a file button has ended after a failed download: the user  *)
(* was told that the download failed, and the flag is clear                *)
C24_Witness ==
    \E t \in TaskIds :
        /\ ResolvedFilePress(t)
        /\ task[t].pc = "done"
        /\ task[t].fetched /\ task[t].file_content = None
        /\ LastEv(task[t].log) = Edit("failed", task[t].file_name)
        /\ ~user_data[task[t].u].is_busy

(* the calls of the remote tree that invocation t has made *)
RemoteCalls(t) == SelectSeq(task[t].log, LAMBDA e : e.k \in DriveEvents)

(* C25: one browse command or button press makes every call of the remote *)
(* tree at most once: no call is repeated, a browse command looks up at    *)
(* most the year and the branch (one lookup per folder of the path) and a  *)
(* subject press at most the subfolder, each makes at most one listing,    *)
(* and a file press at most one fetch of the content, whether the calls    *)
(* fail or not.                                                            *)
C25_NoAutomaticRetry ==
    \A t \in TaskIds :
        LET calls == RemoteCalls(t)
            lookups == EventsOf(task[t].log, "get_folder_id")
        IN  /\ \A i, j \in DOMAIN calls : calls[i] = calls[j] => i = j
            /\ \A i, j \in DOMAIN lookups : lookups[i].a = lookups[j].a => i = j
            /\ Len(lookups) <= (IF task[t].kind = "command" THEN 2 ELSE 1)
            /\ Len(EventsOf(task[t].log, "list_items")) <= 1
            /\ Len(EventsOf(task[t].log, "download_file")) <= 1
            /\ task[t].kind = "command" => EventsOf(task[t].log, "download_file") = << >>

(* a file press whose fetch failed has ended: it asked for the content     *)
(* once and told the user that the download failed                         *)
C25_Witness ==
    \E t \in TaskIds :
        /\ task[t].pc = "done"
        /\ task[t].drive_fault = "http"
        /\ Len(EventsOf(task[t].log, "download_file")) = 1
        /\ Len(RemoteCalls(t)) = 1
        /\ EventsOf(task[t].log, "edit") # << >>

(* a step of a browse command leaves the file names of its user as they    *)
(* are, whether it renders a subject menu or not                           *)
BrowseKeepsFileNames(t) ==
    (Acts(t) /\ task'[t].kind = "command")
    => user_data'[task'[t].u].last_file_names = user_data[task'[t].u].last_file_names

(* a step of a button press leaves the subject names of its user as they   *)
(* are, whether it renders a file menu or not                              *)
PressKeepsSubjectNames(t) ==
    (Acts(t) /\ task'[t].kind = "button")
    => user_data'[task'[t].u].last_subject_names
           = user_data[task'[t].u].last_subject_names

(* a file button whose id the file names hold resolves to its file,        *)
(* whatever subject menu is the current one                                *)
HeldFileResolves(t) ==
    LET data_parts == Split(task[t].data)
        names == user_data[task[t].u].last_file_names
    IN  (/\ task[t].pc = "btn_answered" /\ ~task[t].exc
         /\ data_parts[1] = "dl"
         /\ data_parts[2] \in DOMAIN names
         /\ task'[t].pc # "btn_answered")
        => /\ task'[t].pc = "btn_preparing"
           /\ task'[t].file_id = data_parts[2]
           /\ task'[t].file_name = names[data_parts[2]]

(* C26: the render of a subject menu by a browse command replaces          *)
(* last_subject_names and leaves last_file_names unchanged, and the render *)
(* of a file menu by a subject press replaces last_file_names and leaves   *)
(* last_subject_names unchanged; a file button whose id last_file_names    *)
(* holds therefore resolves to its file also after the user has issued the *)
(* browse command again.                                                   *)
C26_LevelsSeparate ==
    [][\A t \in TaskIds :
          /\ BrowseKeepsFileNames(t)
          /\ PressKeepsSubjectNames(t)
          /\ HeldFileResolves(t)]_vars

(* a user who held the file menu with hw1.pdf has issued the browse        *)
(* command again, was shown the subjects DSA and OS, and then pressed the  *)
(* button of hw1.pdf: the press resolved to the file                       *)
C26_Witness ==
    \E t \in TaskIds :
        /\ task[t].kind = "button"
        /\ task[t].data = Join(<<"dl", "F3">>)
        /\ task[t].file_id = "F3"
        /\ DOMAIN user_data[task[t].u].last_subject_names = {"DSA", "OS"}
        /\ menus[task[t].u].current # {}

(* the kind of browse a command asks for *)
KindOf(text) == IF text = <<"/notes">> THEN "notes" ELSE "assignments"

(* the subject menu a browse command renders carries the command's kind in *)
(* every button                                                            *)
MenuCarriesKind(t) ==
    Renders(t, "reply_menu")
    => \A i \in DOMAIN LastEv(task'[t].log).m :
          Split(LastEv(task'[t].log).m[i].callback_data)[3] = KindOf(task[t].data)

(* what the press of a subject button looks up and lists is the subfolder  *)
(* of the kind that the button carries                                     *)
PressFollowsKind(t) ==
    LET data_parts == Split(task[t].data)
        folders == KindFolders(tree, data_parts[2], data_parts[3])
        log == task[t].log
    IN  (task[t].kind = "button" /\ data_parts[1] = "subj")
        => \A i \in DOMAIN log :
              /\ log[i].k = "get_folder_id"
                 => /\ log[i].a = data_parts[2]
                    /\ log[i].n = (IF data_parts[3] = "notes" THEN <<"Notes">>
                                                               ELSE <<"Assignments">>)
              /\ log[i].k = "list_items" => log[i].a \in folders
              /\ log[i].k = "edit_menu"
                 => /\ log[i].a = data_parts[3]
                    /\ \E n \in folders : OneButtonPer(log[i].m, ChildIds(tree, n, "file"), "dl")

(* C27: every button of the subject menu that /notes renders carries the   *)
(* kind notes and every button of the one that /assignments renders the    *)
(* kind assignments; the press of a subject button looks up and lists the  *)
(* subfolder "Notes" of its subject when the button carries notes and the  *)
(* subfolder "Assignments" otherwise, whatever browse commands the user    *)
(* issued between the render and the press.                                *)
C27_KindCarried ==
    /\ [](\A t \in TaskIds : PressFollowsKind(t))
    /\ [][\A t \in TaskIds : MenuCarriesKind(t)]_vars

(* after /notes and then /assignments the user pressed the button of DSA   *)
(* that /notes had rendered: the files of the Notes folder were listed     *)
C27_Witness ==
    \E t \in TaskIds :
        /\ task[t].kind = "button"
        /\ task[t].data = Join(<<"subj", "DSA", "notes">>)
        /\ task[t].was_replaced
        /\ Join(<<"subj", "DSA", "assignments">>) \in menus[task[t].u].current
        /\ LastEv(task[t].log).k = "edit_menu"
        /\ Callbacks(LastEv(task[t].log).m) = {Join(<<"dl", "F1">>), Join(<<"dl", "F2">>)}

(* the step has brought the body of file_selection_command to its cache    *)
(* write: the listing of the branch folder was made, did not fail, and     *)
(* returned a subject                                                      *)
ReachedCacheWrite(t) ==
    /\ task[t].pc = "fsc_greeted"
    /\ task'[t].drive_fault = "ok"
    /\ \E i \in DOMAIN task'[t].log :
        /\ task'[t].log[i].k = "list_items"
        /\ ChildIds(tree, task'[t].log[i].a, "folder") # {}

(* C28: a step of file_selection_command that does not reach the cache     *)
(* write (setup incomplete, Drive service unavailable, year or branch      *)
(* folder missing, no subject, or an exception before the write) renders   *)
(* no menu and leaves the user's last_subject_names and last_file_names    *)
(* exactly as they were.                                                   *)
C28_NoMenuNoChange ==
    [][\A t \in TaskIds :
          (Acts(t) /\ task'[t].kind = "command" /\ ~ReachedCacheWrite(t))
          => /\ user_data'[task'[t].u].last_subject_names
                    = user_data[task'[t].u].last_subject_names
             /\ user_data'[task'[t].u].last_file_names
                    = user_data[task'[t].u].last_file_names
             /\ EventsOf(task'[t].log, "reply_menu")
                    = (IF Begins(t) THEN << >> ELSE EventsOf(task[t].log, "reply_menu"))
             /\ rendered' = rendered]_vars

(* a user who holds the menus of an earlier browse sent /notes on a branch *)
(* without subjects: the answer was "no subjects", and the session still   *)
(* holds the names of the earlier menus                                    *)
C28_Witness ==
    \E t \in TaskIds :
        /\ task[t].kind = "command"
        /\ LastEv(task[t].log) = Reply("no_subjects")
        /\ user_data[task[t].u].last_subject_names = OldMenuData.last_subject_names
        /\ user_data[task[t].u].last_file_names = OldMenuData.last_file_names

(* the step brings a subject press to the write of the file names: the     *)
(* listing of the subfolder was made, did not fail, and returned a file    *)
ReachedFileWrite(t) ==
    /\ task[t].kind = "button" /\ task[t].pc = "btn_answered"
    /\ task'[t].drive_fault = "ok"
    /\ \E i \in DOMAIN task'[t].log :
        /\ task'[t].log[i].k = "list_items"
        /\ ChildIds(tree, task'[t].log[i].a, "file") # {}

SubjectNamesKept(u) ==
    user_data'[u].last_subject_names = user_data[u].last_subject_names

FileNamesKept(u) == user_data'[u].last_file_names = user_data[u].last_file_names

(* the step that looks a token up leaves the names of the token's level as *)
(* they are                                                                *)
LookupKeepsLevel(t) ==
    (task[t].kind = "button" /\ task[t].pc = "btn_answered"
     /\ task'[t].pc # "btn_answered" /\ ~Foreign(task[t].data))
    => IF Split(task[t].data)[1] = "subj" THEN SubjectNamesKept(task[t].u)
                                           ELSE FileNamesKept(task[t].u)

(* C29 as stated: the names of a level change only in a step that renders  *)
(* a menu of that level, so that two presses of one button with no such    *)
(* render between them resolve alike.                                      *)
C29_SamePressSameItem ==
    [][\A u \in Users :
          /\ (\A t \in TaskIds : task[t].u = u => ~Renders(t, "reply_menu"))
             => SubjectNamesKept(u)
          /\ (\A t \in TaskIds : task[t].u = u => ~Renders(t, "edit_menu"))
             => FileNamesKept(u)]_vars

(* C29, amended: the step that resolves a token leaves the names of the    *)
(* token's level unchanged, and the names of a level change only in a step *)
(* that writes them before rendering a menu of the level (whether the menu *)
(* then reaches the chat or the reply raises) and in reset_command; two    *)
(* presses of one button with neither between them resolve to the same     *)
(* item.                                                                   *)
C29_LookupReadOnly ==
    [][/\ \A t \in TaskIds : LookupKeepsLevel(t)
       /\ \A u \in Users :
            /\ (/\ \A t \in TaskIds : task[t].u = u => ~ReachedCacheWrite(t)
                /\ ~reset_command(u))
               => SubjectNamesKept(u)
            /\ (/\ \A t \in TaskIds : task[t].u = u => ~ReachedFileWrite(t)
                /\ ~reset_command(u))
               => FileNamesKept(u)]_vars

(* one subject button was pressed twice and resolved to the same subject   *)
(* both times: the access log holds the two records, and the names still   *)
(* hold the subject                                                        *)
C29_Witness ==
    /\ Len(access_logs) = 2
    /\ access_logs[1] = access_logs[2]
    /\ \E id \in DOMAIN user_data[access_logs[1].user_id].last_subject_names :
          user_data[access_logs[1].user_id].last_subject_names[id]
              = access_logs[1].subject_name

(* a browse command of a user whose setup is not complete ends with the    *)
(* request to run /start: it is not greeted and goes on to no lookup       *)
UnsetBrowseStops(t) ==
    (/\ Begins(t) /\ task'[t].kind = "command" /\ task'[t].verdict = "admitted"
     /\ ~check_user_setup(user_data[task'[t].u]))
    => /\ task'[t].pc = "fsc_return"
       /\ task'[t].log \in {<< >>, <<Reply("run_start")>>}

(* a step of a browse command whose user's setup is not complete calls the *)
(* remote tree never, writes no name and renders no menu                   *)
UnsetBrowseIsLocal(t) ==
    (/\ Acts(t) /\ task'[t].kind = "command"
     /\ ~check_user_setup(user_data[task'[t].u]))
    => /\ RemoteCalls(t)' = (IF Begins(t) THEN << >> ELSE RemoteCalls(t))
       /\ ~Renders(t, "reply_menu")
       /\ SubjectNamesKept(task'[t].u) /\ FileNamesKept(task'[t].u)

(* the profile of a session changes in reset_command only: what a command  *)
(* reads after its greeting is what the session held when it began         *)
ProfileKept(u) ==
    ~reset_command(u)
    => /\ user_data'[u].year = user_data[u].year
       /\ user_data'[u].branch = user_data[u].branch
       /\ user_data'[u].name = user_data[u].name

(* the menu a step renders was found with the year and the branch of the   *)
(* session: the year folder under the root, the branch folder under the    *)
(* year folder, the listing of the branch folder                           *)
MenuFromOwnProfile(t) ==
    LET session == user_data[task[t].u]
        log == task'[t].log
        lookups == EventsOf(log, "get_folder_id")
        listings == EventsOf(log, "list_items")
    IN  Renders(t, "reply_menu")
        => /\ check_user_setup(session)
           /\ Len(lookups) = 2 /\ Len(listings) = 1
           /\ lookups[1].a = ROOT
           /\ lookups[1].n = Replace(session.year, " ", "_")
           /\ lookups[2].a \in FoldersNamed(tree, ROOT, lookups[1].n)
           /\ lookups[2].n = session.branch
           /\ listings[1].a \in FoldersNamed(tree, lookups[2].a, session.branch)
           /\ OneButtonPer(LastEv(log).m, ChildIds(tree, listings[1].a, "folder"), "subj")

(* C30: file_selection_command calls the remote tree, writes a name into   *)
(* the caches or renders a menu only for a user whose setup is complete:   *)
(* a command that finds the setup incomplete ends with the request to run  *)
(* /start, and no step of a command whose user's setup is incomplete does  *)
(* any of the three; every menu it renders lists the branch folder found   *)
(* with the year and the branch of that user's session, which are those    *)
(* the session held when the command was sent.                             *)
C30_SetupGuard ==
    /\ [](\A t \in TaskIds :
            (task[t].kind = "command" /\ RemoteCalls(t) # << >>)
            => task[t].log[1] = Reply("greeting"))
    /\ [][/\ \A t \in TaskIds :
               UnsetBrowseStops(t) /\ UnsetBrowseIsLocal(t) /\ MenuFromOwnProfile(t)
          /\ \A u \in Users : ProfileKept(u)]_vars

(* a command of a set-up user has rendered the subject menu of the branch  *)
(* of that user's session                                                  *)
C30_Witness ==
    \E t \in TaskIds :
        /\ task[t].kind = "command"
        /\ LastEv(task[t].log).k = "reply_menu"
        /\ EventsOf(task[t].log, "get_folder_id")[2].n = user_data[task[t].u].branch
        /\ tree = TreeFull
        /\ check_user_setup(user_data[task[t].u])

(* the step takes a press of a file button of u through the download       *)
(* branch's increment of the points                                        *)
DownloadPressOf(u) ==
    \E t \in TaskIds :
        /\ task[t].u = u /\ task[t].kind = "button"
        /\ task[t].pc = "btn_answered" /\ task'[t].pc # "btn_answered"
        /\ ~task[t].exc
        /\ Split(task[t].data)[1] = "dl"

(* C31: the stored points of a user are the number of the user's download  *)
(* presses since the last reset: reset_command sets them to nothing, a     *)
(* download press adds one, and every other step, a write of the session   *)
(* by the persistence included, leaves them as they are; they never        *)
(* decrease except by reset_command.                                       *)
C31_PointsSurvivePersistence ==
    [][\A u \in Users :
          points'[u] = IF reset_command(u) THEN 0
                       ELSE IF DownloadPressOf(u) THEN points[u] + 1
                       ELSE points[u]]_vars

(* the step takes the press of a subject button of invocation t past the   *)
(* lookup of its token, and the token resolves                             *)
SubjectResolves(t) ==
    /\ task[t].kind = "button"
    /\ task[t].pc = "btn_answered" /\ task'[t].pc # "btn_answered"
    /\ ~task[t].exc
    /\ Split(task[t].data)[1] = "subj"
    /\ Split(task[t].data)[2] \in DOMAIN user_data[task[t].u].last_subject_names

AccessRecord(t) ==
    [user_id |-> task[t].u,
     subject_name |-> user_data[task[t].u].last_subject_names[Split(task[t].data)[2]],
     type |-> Split(task[t].data)[3]]

(* C32: the step in which a subject press resolves its token appends       *)
(* exactly one record (user id, subject name, browse kind) to the access   *)
(* log, whatever the lookup of the subfolder and the listing find          *)
(* afterwards; every other step (a subject press that ends as Missing, a   *)
(* file press, a foreign token, a browse command) leaves the access log    *)
(* as it is.                                                               *)
C32_AccessLogged ==
    [][/\ \A t \in TaskIds :
            SubjectResolves(t) => access_logs' = Append(access_logs, AccessRecord(t))
       /\ (\A t \in TaskIds : ~SubjectResolves(t)) => access_logs' = access_logs]_vars

(* the press of the button of OS, which has no Notes folder, was recorded  *)
(* and then answered with the notice that the folder does not exist        *)
C32_Witness ==
    \E t \in TaskIds :
        /\ task[t].kind = "button"
        /\ LastEv(task[t].log) = Edit("no_subfolder", <<"OS">>)
        /\ access_logs = <<[user_id |-> task[t].u, subject_name |-> <<"OS">>,
                            type |-> "notes"]>>

(* context.user_data holds the three keys that the setup asks for *)
SetUp(cv) == cv.year # NoName /\ cv.branch # NoName /\ cv.name # NoName

(* the names of the folders that lie under the folder of the year *)
BranchesOf(year) ==
    LET branches == list_items(tree, "ok",
                        get_folder_id(tree, "ok", ROOT, Replace(year, " ", "_")),
                        "folders")
    IN  {branches[i].name : i \in DOMAIN branches}

ConversationOrder ==
    {<<"END", "ASK_YEAR">>, <<"ASK_YEAR", "ASK_BRANCH">>, <<"ASK_BRANCH", "ASK_NAME">>,
     <<"ASK_NAME", "END">>, <<"ASK_YEAR", "END">>}

(* C33: the stored state of the setup conversation changes only along      *)
(* ASK_YEAR -> ASK_BRANCH -> ASK_NAME -> END (it is entered from END by    *)
(* /start and left from ASK_YEAR when the branches cannot be fetched); the  *)
(* session's branch changes only to one of available_branches; and a       *)
(* session that holds year, branch and name holds a branch that is a       *)
(* folder of that year, and holds no available_branches any more.          *)
C33_OnboardingValid ==
    /\ [][conv'.state # conv.state => <<conv.state, conv'.state>> \in ConversationOrder]_vars
    /\ [][conv'.branch # conv.branch
            => conv'.branch \in Range(AvailableBranches(conv))]_vars
    /\ [](SetUp(conv) => /\ conv.branch \in BranchesOf(conv.year)
                         /\ conv.available_branches = Absent)

(* the users whose documents the target of the run selects *)
MatchingUsers == {u \in Users : QueryMatches(bc.target, user_data[u])}

Recipients == {bc.forwarded[k].chat_id : k \in DOMAIN bc.forwarded}

(* C34: a run of broadcast_message_received forwards the message to no     *)
(* user twice and to matching users only; it leaves its loop only when it  *)
(* has tried every matching user, whether the tries before failed or not;  *)
(* when it reports, success_count + fail_count is the number of matching   *)
(* users; and with no matching user it forwards nothing.                   *)
C34_BroadcastAccounting ==
    /\ [](/\ \A j, k \in DOMAIN bc.forwarded :
                bc.forwarded[j].chat_id = bc.forwarded[k].chat_id => j = k
          /\ Recipients \subseteq MatchingUsers
          /\ bc.success_count + bc.fail_count = Len(bc.forwarded)
          /\ bc.pc \in {"reporting", "done"}
                => /\ Recipients = MatchingUsers
                   /\ bc.success_count + bc.fail_count = Cardinality(MatchingUsers)
          /\ MatchingUsers = {} => bc.forwarded = << >>)
    /\ [][bc.pc = "forwarding" /\ bc'.pc # "forwarding"
            => {bc'.forwarded[k].chat_id : k \in DOMAIN bc'.forwarded} = MatchingUsers]_vars

(* the forward to the first of two matching users failed, the second was   *)
(* tried all the same, and the run reported one success and one failure    *)
C34_Witness ==
    /\ bc.pc = "done"
    /\ Len(bc.forwarded) = 2
    /\ ~bc.forwarded[1].ok /\ bc.forwarded[2].ok
    /\ bc.success_count = 1 /\ bc.fail_count = 1

=============================================================================
